---- MODULE Spec2Model ----
(***************************************************************************)
(* The VPA operator: the VpaManager reconciler and the Deployment and      *)
(* StatefulSet admission handlers, over a cluster of namespaces,           *)
(* VpaManagers, workloads and VerticalPodAutoscalers.                      *)
(***************************************************************************)
EXTENDS Integers, Sequences, FiniteSets, TLC

(***************************************************************************)
(* The cluster's universe.  Lists are returned by the API server in name   *)
(* order, so every universe is a sequence in that order.                   *)
(***************************************************************************)
NsOrder == <<"ns1", "ns2">>
NameOrder == <<"app">>
MgrOrder == <<"m1", "m2">>
\* DefaultWorkloadConfigs: the providers, in the order the reconciler walks them.
WorkloadConfigs == <<"Deployment", "StatefulSet", "DaemonSet">>

SeqRange(s) == {s[i] : i \in 1..Len(s)}

NsNames == SeqRange(NsOrder)
Names == SeqRange(NameOrder)
MgrNames == SeqRange(MgrOrder)
Kinds == SeqRange(WorkloadConfigs)

\* A label set is a set of "key=value" tokens.
LabelSets == {{}, {"vpa-enabled=true"}}

\* The labels the namespaces carry (Namespace.Labels).
NsLabelsOf(ns) == IF ns = "ns1" THEN {"vpa-enabled=true"} ELSE {}

\* Bounds of the model.
MaxWorkloads == 2
MaxVPAs == 1
MaxPasses == 2

\* 5 * time.Minute, in seconds.
RequeueSeconds == 300

ManagedByKey == "vpa-operator"
NoManager == ""
UpdateModes == {"Off", "Initial", "Auto"}

(***************************************************************************)
(* Label selectors (metav1.LabelSelector pointers): nil, or a selector      *)
(* whose matchLabels all have to be among the object's labels.             *)
(***************************************************************************)
NilSelector == [isNil |-> TRUE, matchLabels |-> {}]
Selector(ml) == [isNil |-> FALSE, matchLabels |-> ml]
Selectors == {NilSelector} \cup {Selector(ml) : ml \in LabelSets}

\* metav1.LabelSelectorAsSelector(selector).Matches(labels.Set(objLabels))
SelectorMatches(objLabels, selector) == selector.matchLabels \subseteq objLabels

(***************************************************************************)
(* Objects.                                                                *)
(***************************************************************************)
VpaName(name) == name \o "-vpa"
VpaNames == {VpaName(n) : n \in Names}
VpaKeys == NsNames \X VpaNames
Slots == Kinds \X NsNames \X Names

\* The UID the API server gave the workload.
UIDOf(kind, ns, name) == kind \o "/" \o ns \o "/" \o name

NoPolicy == [isNil |-> TRUE, containerPolicies |-> <<>>]
OnePolicy ==
    [isNil |-> FALSE,
     containerPolicies |->
        << [containerName |-> "*",
            minAllowed |-> [isNil |-> FALSE, m |-> {<<"cpu", "100m">>}],
            maxAllowed |-> [isNil |-> TRUE, m |-> {}]] >>]
TwoPolicies ==
    [isNil |-> FALSE,
     containerPolicies |->
        << [containerName |-> "app",
            minAllowed |-> [isNil |-> FALSE, m |-> {<<"cpu", "100m">>}],
            maxAllowed |-> [isNil |-> FALSE, m |-> {<<"cpu", "1">>, <<"memory", "1Gi">>}]],
           [containerName |-> "sidecar",
            minAllowed |-> [isNil |-> TRUE, m |-> {}],
            maxAllowed |-> [isNil |-> FALSE, m |-> {}]] >>]
EmptyPolicy == [isNil |-> FALSE, containerPolicies |-> <<>>]

EmptyStatus ==
    [managedVPAs |-> 0, deploymentCount |-> 0, statefulSetCount |-> 0,
     daemonSetCount |-> 0, managedDeployments |-> <<>>,
     managedWorkloads |-> <<>>, lastReconcileTime |-> 0]

(***************************************************************************)
(* The VPA builders.  A VPA is the unstructured object the code fills in.  *)
(***************************************************************************)
\* The copy loop over vpaManager.Spec.ResourcePolicy.ContainerPolicies.
CopyContainerPolicies(cps) ==
    [i \in 1..Len(cps) |->
        [containerName |-> cps[i].containerName,
         minAllowed |-> IF cps[i].minAllowed.isNil
                        THEN [present |-> FALSE, m |-> {}]
                        ELSE [present |-> TRUE, m |-> cps[i].minAllowed.m],
         maxAllowed |-> IF cps[i].maxAllowed.isNil
                        THEN [present |-> FALSE, m |-> {}]
                        ELSE [present |-> TRUE, m |-> cps[i].maxAllowed.m]]]

\* spec with a resourcePolicy whenever the manager has one, its container
\* policies being empty or not.
BuildSpecWithAnyPolicy(vpaManager, kind, name) ==
    [targetRef |-> [apiVersion |-> "apps/v1", kind |-> kind, name |-> name],
     updatePolicy |-> [updateMode |-> vpaManager.spec.updateMode],
     resourcePolicy |->
        IF ~vpaManager.spec.resourcePolicy.isNil
        THEN [present |-> TRUE,
              containerPolicies |->
                CopyContainerPolicies(vpaManager.spec.resourcePolicy.containerPolicies)]
        ELSE [present |-> FALSE, containerPolicies |-> <<>>]]

\* spec: targetRef, updatePolicy and, when the manager has container
\* policies, resourcePolicy.
BuildSpec(vpaManager, kind, name) ==
    [targetRef |-> [apiVersion |-> "apps/v1", kind |-> kind, name |-> name],
     updatePolicy |-> [updateMode |-> vpaManager.spec.updateMode],
     resourcePolicy |->
        IF /\ ~vpaManager.spec.resourcePolicy.isNil
           /\ Len(vpaManager.spec.resourcePolicy.containerPolicies) > 0
        THEN [present |-> TRUE,
              containerPolicies |->
                CopyContainerPolicies(vpaManager.spec.resourcePolicy.containerPolicies)]
        ELSE [present |-> FALSE, containerPolicies |-> <<>>]]

\* The reconciler's builder: the owner reference carries the controller flags.
buildVPAForWorkload(vpaManager, kind, name, namespace, uid, vpaName) ==
    [name |-> vpaName,
     namespace |-> namespace,
     labels |-> [managedBy |-> ManagedByKey, createdBy |-> vpaManager.name],
     ownerReferences |->
        << [apiVersion |-> "apps/v1", kind |-> kind, name |-> name, uid |-> uid,
            controller |-> TRUE, blockOwnerDeletion |-> TRUE] >>,
     spec |-> BuildSpec(vpaManager, kind, name)]

\* The admission handlers' builder (one per handler, kind fixed by the
\* handler): the owner reference leaves the controller flags unset.
buildVPA(kind, vpaManager, obj, vpaName) ==
    [name |-> vpaName,
     namespace |-> obj.namespace,
     labels |-> [managedBy |-> ManagedByKey, createdBy |-> vpaManager.name],
     ownerReferences |->
        << [apiVersion |-> "apps/v1", kind |-> kind, name |-> obj.name,
            uid |-> obj.uid, controller |-> FALSE, blockOwnerDeletion |-> FALSE] >>,
     spec |-> BuildSpec(vpaManager, kind, obj.name)]

(***************************************************************************)
(* API calls fail when the call's ordinal number within the handler is in  *)
(* the handler's fault set (an error other than not-found).                *)
(***************************************************************************)
Failing(calls, faults) == (calls + 1) \in faults

Min(S) == CHOOSE x \in S : \A y \in S : x <= y

\* vpaManagerList.Items, in list order.
ManagerItems(M) == SelectSeq(MgrOrder, LAMBDA m : m \in DOMAIN M)

(***************************************************************************)
(* The metrics: error classification by substrings of the error message.   *)
(* A message is the sequence of its characters; an error is nil or has a   *)
(* message.                                                                *)
(***************************************************************************)

NilError == [isNil |-> TRUE, message |-> <<>>]
ErrorOf(message) == [isNil |-> FALSE, message |-> message]

\* The substrings ClassifyError looks for.
Text ==
    [notFound |->
        <<"n", "o", "t", " ", "f", "o", "u", "n", "d">>,
     NotFound |->
        <<"N", "o", "t", "F", "o", "u", "n", "d">>,
     conflict |->
        <<"c", "o", "n", "f", "l", "i", "c", "t">>,
     Conflict |->
        <<"C", "o", "n", "f", "l", "i", "c", "t">>,
     alreadyExists |->
        <<"a", "l", "r", "e", "a", "d", "y", " ", "e", "x", "i", "s", "t", "s">>,
     validation |->
        <<"v", "a", "l", "i", "d", "a", "t", "i", "o", "n">>,
     invalid |->
        <<"i", "n", "v", "a", "l", "i", "d">>,
     Invalid |->
        <<"I", "n", "v", "a", "l", "i", "d">>,
     connectionRefused |->
        <<"c", "o", "n", "n", "e", "c", "t", "i", "o", "n", " ", "r", "e", "f", "u", "s", "e", "d">>,
     timeout |->
        <<"t", "i", "m", "e", "o", "u", "t">>,
     contextDeadline |->
        <<"c", "o", "n", "t", "e", "x", "t", " ", "d", "e", "a", "d", "l", "i", "n", "e">>]

\* containsAny: some substring that is not empty occurs in s at some offset.
containsAny(s, substrings) ==
    \E k \in 1..Len(substrings) :
        LET sub == substrings[k] IN
        /\ Len(sub) > 0
        /\ Len(s) >= Len(sub)
        /\ \E i \in 0..(Len(s) - Len(sub)) : SubSeq(s, i + 1, i + Len(sub)) = sub

\* ClassifyError when the conflict patterns are tested before the not-found
\* patterns.
ClassifyErrorConflictFirst(err) ==
    IF err.isNil THEN ""
    ELSE LET errStr == err.message IN
         CASE containsAny(errStr, <<Text.conflict, Text.Conflict, Text.alreadyExists>>) ->
                "conflict"
           [] containsAny(errStr, <<Text.notFound, Text.NotFound>>) -> "not_found"
           [] containsAny(errStr, <<Text.validation, Text.invalid, Text.Invalid>>) ->
                "validation"
           [] containsAny(errStr, <<Text.connectionRefused, Text.timeout,
                                    Text.contextDeadline>>) -> "api_server"
           [] OTHER -> "unknown"

\* ClassifyError: the switch takes the first case that holds.
ClassifyError(err) ==
    IF err.isNil THEN ""
    ELSE LET errStr == err.message IN
         IF containsAny(errStr, <<Text.notFound, Text.NotFound>>)
         THEN "not_found"
         ELSE IF containsAny(errStr, <<Text.conflict, Text.Conflict, Text.alreadyExists>>)
         THEN "conflict"
         ELSE IF containsAny(errStr, <<Text.validation, Text.invalid, Text.Invalid>>)
         THEN "validation"
         ELSE IF containsAny(errStr, <<Text.connectionRefused, Text.timeout,
                                       Text.contextDeadline>>)
         THEN "api_server"
         ELSE "unknown"

\* classifyResult: the result label and the error type.
classifyResult(err) ==
    IF err.isNil THEN <<"success", "">> ELSE <<"error", ClassifyError(err)>>

\* RecordWebhookRequest handed the error as it was when the call was
\* deferred, before the handler ran: nil.
RecordWebhookRequestOfNil(total, operation, err) ==
    LET l == <<operation, "success", "">> IN
    IF l \in DOMAIN total THEN [total EXCEPT ![l] = @ + 1] ELSE (l :> 1) @@ total

\* WebhookRequestsTotal.WithLabelValues(operation, result, errorType).Inc():
\* the counter vector is a function from the label values to the count.
RecordWebhookRequest(total, operation, err) ==
    LET l == <<operation>> \o classifyResult(err) IN
    IF l \in DOMAIN total THEN [total EXCEPT ![l] = @ + 1] ELSE (l :> 1) @@ total

\* The pieces error messages are made of: the texts the API server and the
\* decoder produce, texts that differ from them in case or spacing, and
\* parts that make up a text only when they are joined.
Piece ==
    [NotFound |->
        <<"N", "o", "t", " ", "F", "o", "u", "n", "d">>,
     time |->
        <<"t", "i", "m", "e">>,
     out |->
        <<"o", "u", "t">>,
     colon |->
        <<":", " ">>,
     failedToDecode |->
        <<"f", "a", "i", "l", "e", "d", " ", "t", "o", " ", "d", "e", "c", "o", "d", "e">>,
     modified |->
        <<"t", "h", "e", " ", "o", "b", "j", "e", "c", "t", " ", "h", "a", "s", " ", "b", "e", "e", "n", " ", "m", "o", "d", "i", "f", "i", "e", "d">>,
     in |->
        <<"i", "n">>,
     valid |->
        <<"v", "a", "l", "i", "d">>]

Fragments ==
    {Text.notFound, Text.NotFound, Text.conflict, Text.Conflict, Text.alreadyExists,
     Text.validation, Text.invalid, Text.Invalid, Text.connectionRefused, Text.timeout,
     Text.contextDeadline, Piece.NotFound, Piece.time, Piece.out, Piece.colon, Piece.failedToDecode,
     Piece.modified, Piece.in, Piece.valid}

\* The messages of at most n fragments.
RECURSIVE Messages(_)
Messages(n) ==
    IF n = 0 THEN {<<>>}
    ELSE LET shorter == Messages(n - 1)
         IN shorter \cup {m \o f : m \in shorter, f \in Fragments}

(***************************************************************************)
(* The admission handlers (Deployment and StatefulSet).                    *)
(***************************************************************************)
\* DeploymentWebhookHandler.matchesSelector: nil matches.
matchesSelector(objLabels, selector) ==
    IF selector.isNil THEN TRUE ELSE SelectorMatches(objLabels, selector)

\* The shared helper: nil does not match.
matchesLabelSelector(objLabels, selector) ==
    IF selector.isNil THEN FALSE ELSE SelectorMatches(objLabels, selector)

\* The loop body of DeploymentWebhookHandler.findMatchingVpaManager.
DeploymentMatches(vm, nsLabels, objLabels) ==
    /\ vm.spec.enabled
    /\ matchesSelector(nsLabels, vm.spec.namespaceSelector)
    /\ matchesSelector(objLabels, vm.spec.deploymentSelector)

\* The loop body of StatefulSetWebhookHandler.findMatchingVpaManager.
StatefulSetMatches(vm, nsLabels, objLabels) ==
    /\ vm.spec.enabled
    /\ matchesLabelSelector(nsLabels, vm.spec.namespaceSelector)
    /\ matchesLabelSelector(objLabels, vm.spec.statefulSetSelector)

HandlerMatches(kind, vm, nsLabels, objLabels) ==
    IF kind = "Deployment"
    THEN DeploymentMatches(vm, nsLabels, objLabels)
    ELSE StatefulSetMatches(vm, nsLabels, objLabels)

\* findMatchingVpaManager: List the managers, Get the namespace, first hit.
\* h is the handler's frame; the result is in h.match and h.err.
findMatchingVpaManager(kind, h, M, obj) ==
    IF Failing(h.calls, h.faults)
    THEN [h EXCEPT !.calls = @ + 1, !.err = TRUE, !.match = NoManager]
    ELSE IF Failing(h.calls + 1, h.faults)
    THEN [h EXCEPT !.calls = @ + 2, !.err = TRUE, !.match = NoManager]
    ELSE LET items == ManagerItems(M)
             hits == {i \in 1..Len(items) :
                        HandlerMatches(kind, M[items[i]],
                                       NsLabelsOf(obj.namespace), obj.labels)}
         IN [h EXCEPT !.calls = @ + 2,
                      !.match = IF hits = {} THEN NoManager ELSE items[Min(hits)]]

\* createVPA when a VPA that is found is overwritten with the built one.
createVPAOverwriting(kind, h, vpaManager, obj, vpaName) ==
    LET key == <<obj.namespace, vpaName>> IN
    IF Failing(h.calls, h.faults)
    THEN [h EXCEPT !.calls = @ + 1, !.err = TRUE]
    ELSE IF Failing(h.calls + 1, h.faults)
    THEN [h EXCEPT !.calls = @ + 2, !.err = TRUE]
    ELSE [h EXCEPT !.calls = @ + 2,
                   !.writes = Append(@, <<IF key \in DOMAIN h.vpas THEN "update"
                                          ELSE "create", key>>),
                   !.vpas = [k \in DOMAIN @ \cup {key} |->
                                IF k = key
                                THEN buildVPA(kind, vpaManager, obj, vpaName)
                                ELSE @[k]]]

\* createVPA: Get; present: nothing; not found: build and Create.
createVPA(kind, h, vpaManager, obj, vpaName) ==
    LET key == <<obj.namespace, vpaName>> IN
    IF Failing(h.calls, h.faults)
    THEN [h EXCEPT !.calls = @ + 1, !.err = TRUE]
    ELSE IF key \in DOMAIN h.vpas
    THEN [h EXCEPT !.calls = @ + 1]
    ELSE IF Failing(h.calls + 1, h.faults)
    THEN [h EXCEPT !.calls = @ + 2, !.err = TRUE]
    ELSE [h EXCEPT !.calls = @ + 2,
                   !.writes = Append(@, <<"create", key>>),
                   !.vpas = (key :> buildVPA(kind, vpaManager, obj, vpaName)) @@ @]

\* updateVPA when a VPA that is found is left as it is.
updateVPAWithoutOverwrite(kind, h, vpaManager, obj, vpaName) ==
    createVPA(kind, h, vpaManager, obj, vpaName)

\* updateVPA: Get; not found: createVPA; found: overwrite spec and Update.
updateVPA(kind, h, vpaManager, obj, vpaName) ==
    LET key == <<obj.namespace, vpaName>> IN
    IF Failing(h.calls, h.faults)
    THEN [h EXCEPT !.calls = @ + 1, !.err = TRUE]
    ELSE IF key \notin DOMAIN h.vpas
    THEN createVPA(kind, [h EXCEPT !.calls = @ + 1], vpaManager, obj, vpaName)
    ELSE IF Failing(h.calls + 1, h.faults)
    THEN [h EXCEPT !.calls = @ + 2, !.err = TRUE]
    ELSE [h EXCEPT !.calls = @ + 2,
                   !.writes = Append(@, <<"update", key>>),
                   !.vpas = [@ EXCEPT ![key].spec =
                                buildVPA(kind, vpaManager, obj, vpaName).spec]]

\* deleteVPA: Delete by name; not found is no error.
deleteVPA(h, namespace, vpaName) ==
    LET key == <<namespace, vpaName>> IN
    IF Failing(h.calls, h.faults)
    THEN [h EXCEPT !.calls = @ + 1, !.err = TRUE]
    ELSE IF key \notin DOMAIN h.vpas
    THEN [h EXCEPT !.calls = @ + 1]
    ELSE [h EXCEPT !.calls = @ + 1,
                   !.writes = Append(@, <<"delete", key>>),
                   !.vpas = [k \in (DOMAIN @) \ {key} |-> @[k]]]

RecordVPAOperation(h, operation, vpaManagerName) ==
    [h EXCEPT !.ops = Append(@, <<operation, vpaManagerName>>)]

\* The object images of a request: the new object and the old one.
NewObject(req) ==
    [namespace |-> req.namespace, name |-> req.name, labels |-> req.labels,
     uid |-> req.uid]
OldObject(req) ==
    [namespace |-> req.namespace, name |-> req.name, labels |-> req.oldLabels,
     uid |-> req.uid]

handleCreate(kind, h, M, req) ==
    IF req.undecodable THEN [h EXCEPT !.err = TRUE]
    ELSE LET h1 == findMatchingVpaManager(kind, h, M, NewObject(req)) IN
         IF h1.err \/ h1.match = NoManager THEN h1
         ELSE LET h2 == createVPA(kind, h1, M[h1.match], NewObject(req),
                                  VpaName(req.name))
              IN IF h2.err THEN h2
                 ELSE RecordVPAOperation(h2, "create", h1.match)

handleUpdate(kind, h, M, req) ==
    IF req.undecodable THEN [h EXCEPT !.err = TRUE]
    ELSE LET hn == findMatchingVpaManager(kind, h, M, NewObject(req)) IN
         IF hn.err THEN hn
         ELSE LET ho == findMatchingVpaManager(kind, hn, M, OldObject(req))
                  newM == hn.match
                  oldM == ho.match
                  h2 == [ho EXCEPT !.match = newM, !.oldMatch = oldM]
                  vpaName == VpaName(req.name)
              IN IF ho.err THEN [ho EXCEPT !.match = newM]
                 ELSE IF oldM = NoManager /\ newM # NoManager
                 THEN LET h3 == createVPA(kind, h2, M[newM], NewObject(req), vpaName)
                      IN IF h3.err THEN h3
                         ELSE RecordVPAOperation(h3, "create", newM)
                 ELSE IF oldM # NoManager /\ newM = NoManager
                 THEN LET h3 == deleteVPA(h2, req.namespace, vpaName)
                      IN IF h3.err THEN h3
                         ELSE RecordVPAOperation(h3, "delete", oldM)
                 ELSE IF newM # NoManager
                 THEN updateVPA(kind, h2, M[newM], NewObject(req), vpaName)
                 ELSE h2

handleDelete(kind, h, M, req) ==
    IF req.undecodable THEN [h EXCEPT !.err = TRUE]
    ELSE LET h1 == findMatchingVpaManager(kind, h, M, OldObject(req)) IN
         IF h1.err \/ h1.match = NoManager THEN h1
         ELSE LET h2 == deleteVPA(h1, req.namespace, VpaName(req.name))
              IN IF h2.err THEN h2
                 ELSE RecordVPAOperation(h2, "delete", h1.match)

\* The response of a Handle that rejects the request after an error.
AllowedUnlessError(h) == ~h.err

\* admission.Allowed(...): the response of Handle.
Allowed(h) == TRUE

\* Handle: dispatch on the operation, record the request, allow.  failure is
\* the error a failing call returns; handleCreate, handleUpdate and
\* handleDelete wrap the decoder's error.
Handle(kind, M, V, req, faults, failure) ==
    LET h0 == [vpas |-> V, calls |-> 0, faults |-> faults, err |-> FALSE,
               match |-> NoManager, oldMatch |-> NoManager,
               ops |-> <<>>, writes |-> <<>>]
        h == CASE req.operation = "CREATE" -> handleCreate(kind, h0, M, req)
               [] req.operation = "UPDATE" -> handleUpdate(kind, h0, M, req)
               [] req.operation = "DELETE" -> handleDelete(kind, h0, M, req)
               [] OTHER -> h0
        err == IF ~h.err THEN NilError
               ELSE IF req.undecodable
               THEN ErrorOf(Piece.failedToDecode \o Piece.colon \o failure.message)
               ELSE failure
    IN [kind |-> kind, req |-> req, called |-> TRUE,
        allowed |-> Allowed(h), err |-> h.err,
        match |-> h.match, oldMatch |-> h.oldMatch,
        ops |-> h.ops, writes |-> h.writes,
        webhookRequest |-> <<req.operation, IF h.err THEN "error" ELSE "success">>,
        error |-> err,
        webhookRequestsTotal |-> RecordWebhookRequest(<<>>, req.operation, err),
        before |-> V, vpas |-> h.vpas, at |-> 0]


(***************************************************************************)
(* The reconciler.  A state s is [managers, vpas, rec]: the objects the    *)
(* reconciler writes and its frame.  Every operator below is one stretch   *)
(* of Reconcile between two suspension points (API calls); W is the        *)
(* workloads as the API server holds them when the stretch runs.           *)
(***************************************************************************)
IdleFrame ==
    [pc |-> "idle", req |-> NoManager, found |-> FALSE,
     vpaManager |-> [name |-> NoManager, enabled |-> FALSE],
     nss |-> <<>>, cfg |-> 1, wls |-> <<>>,
     managedWorkloads |-> <<>>, watchedWorkloadsCount |-> 0,
     items |-> <<>>, deleted |-> 0, sweepErr |-> FALSE,
     calls |-> 0, faults |-> {}, failed |-> {},
     ops |-> <<>>, writes |-> <<>>, recorded |-> "none",
     patched |-> FALSE, gauges |-> <<0, 0>>,
     err |-> FALSE, requeueAfter |-> 0,
     now |-> 0, before |-> <<>>,
     lastDeleted |-> <<>>, workloadsAtDelete |-> <<>>]

\* wc.Selector(&vpaManager.Spec) of the i-th workload config.
SelectorOf(spec, kind) ==
    CASE kind = "Deployment" -> spec.deploymentSelector
      [] kind = "StatefulSet" -> spec.statefulSetSelector
      [] kind = "DaemonSet" -> spec.daemonSetSelector

\* getMatchingNamespaces when the selector is applied to the namespaces
\* whether it is nil or not, a nil selector matching no namespace.
getMatchingNamespacesNilAsNone(selector) ==
    SelectSeq(NsOrder, LAMBDA ns : /\ ~selector.isNil
                                   /\ SelectorMatches(NsLabelsOf(ns), selector))

\* getMatchingNamespaces: nil lists every namespace, otherwise the server
\* selects by label.
getMatchingNamespaces(selector) ==
    IF selector.isNil
    THEN NsOrder
    ELSE SelectSeq(NsOrder, LAMBDA ns : SelectorMatches(NsLabelsOf(ns), selector))

\* Provider.List(ns, selector): the workloads of the kind in the namespace
\* whose labels the selector matches, in name order.
ProviderList(W, kind, ns, selector) ==
    LET hit(n) == /\ <<kind, ns, n>> \in DOMAIN W
                  /\ (selector.isNil \/ SelectorMatches(W[<<kind, ns, n>>].labels, selector))
        names == SelectSeq(NameOrder, hit)
    IN [i \in 1..Len(names) |->
          [kind |-> kind, name |-> names[i], namespace |-> ns,
           uid |-> W[<<kind, ns, names[i]>>].uid]]

\* The return paths of Reconcile.
Return(r, err, requeueAfter, recorded) ==
    [r EXCEPT !.pc = "done", !.err = err, !.requeueAfter = requeueAfter,
              !.recorded = recorded, !.nss = <<>>, !.wls = <<>>, !.items = <<>>]

\* The head of the two loops of Reconcile when a kind whose selector is nil
\* is listed like any other.
RECURSIVE NextListListingNil(_)
NextListListingNil(r) ==
    IF r.nss = <<>> THEN [r EXCEPT !.pc = "sweepList", !.cfg = 1]
    ELSE IF r.cfg > Len(WorkloadConfigs)
    THEN NextListListingNil([r EXCEPT !.nss = Tail(@), !.cfg = 1])
    ELSE [r EXCEPT !.pc = "list"]

\* The head of the two loops of Reconcile: skip the kinds whose selector is
\* nil, move to the next namespace after the last kind, and leave the loops
\* for the orphan cleanup after the last namespace.
RECURSIVE NextList(_)
NextList(r) ==
    IF r.nss = <<>> THEN [r EXCEPT !.pc = "sweepList", !.cfg = 1]
    ELSE IF r.cfg > Len(WorkloadConfigs)
    THEN NextList([r EXCEPT !.nss = Tail(@), !.cfg = 1])
    ELSE IF SelectorOf(r.vpaManager.spec, WorkloadConfigs[r.cfg]).isNil
    THEN NextList([r EXCEPT !.cfg = @ + 1])
    ELSE [r EXCEPT !.pc = "list"]

\* Reconcile up to the workload loops when the disabled branch is left out.
ReconcileBeginIgnoringEnabled(s, name, faults, now) ==
    LET r0 == [IdleFrame EXCEPT !.req = name, !.faults = faults, !.now = now,
                                !.before = s.vpas]
    IN IF Failing(0, faults)
       THEN [s EXCEPT !.rec = Return([r0 EXCEPT !.calls = 1, !.failed = {"get"}],
                                     TRUE, 0, "error")]
       ELSE IF name \notin DOMAIN s.managers
       THEN [s EXCEPT !.rec = Return([r0 EXCEPT !.calls = 1], FALSE, 0, "none")]
       ELSE LET r1 == [r0 EXCEPT !.calls = 1, !.found = TRUE,
                                 !.vpaManager = s.managers[name]]
            IN IF Failing(1, faults)
               THEN [s EXCEPT !.rec = Return([r1 EXCEPT !.calls = 2,
                                                        !.failed = {"namespaces"}],
                                             TRUE, 0, "error")]
               ELSE [s EXCEPT !.rec =
                        NextList([r1 EXCEPT
                            !.calls = 2,
                            !.nss = getMatchingNamespaces(
                                        r1.vpaManager.spec.namespaceSelector)])]

\* Reconcile up to the workload loops when a manager that is not found is
\* an error like any other.
ReconcileBeginNotFoundIsError(s, name, faults, now) ==
    LET r0 == [IdleFrame EXCEPT !.req = name, !.faults = faults, !.now = now,
                                !.before = s.vpas]
    IN IF Failing(0, faults) \/ name \notin DOMAIN s.managers
       THEN [s EXCEPT !.rec = Return([r0 EXCEPT !.calls = 1, !.failed = {"get"}],
                                     TRUE, 0, "error")]
       ELSE LET r1 == [r0 EXCEPT !.calls = 1, !.found = TRUE,
                                 !.vpaManager = s.managers[name]]
            IN IF ~r1.vpaManager.spec.enabled
               THEN [s EXCEPT !.rec = Return(r1, FALSE, 0, "success")]
               ELSE IF Failing(1, faults)
               THEN [s EXCEPT !.rec = Return([r1 EXCEPT !.calls = 2,
                                                        !.failed = {"namespaces"}],
                                             TRUE, 0, "error")]
               ELSE [s EXCEPT !.rec =
                        NextList([r1 EXCEPT
                            !.calls = 2,
                            !.nss = getMatchingNamespaces(
                                        r1.vpaManager.spec.namespaceSelector)])]

\* Reconcile up to the workload loops: Get the manager, the disabled
\* branch, the namespaces.
ReconcileBegin(s, name, faults, now) ==
    LET r0 == [IdleFrame EXCEPT !.req = name, !.faults = faults, !.now = now,
                                !.before = s.vpas]
    IN IF Failing(0, faults)
       THEN [s EXCEPT !.rec = Return([r0 EXCEPT !.calls = 1, !.failed = {"get"}],
                                     TRUE, 0, "error")]
       ELSE IF name \notin DOMAIN s.managers
       THEN [s EXCEPT !.rec = Return([r0 EXCEPT !.calls = 1], FALSE, 0, "none")]
       ELSE LET r1 == [r0 EXCEPT !.calls = 1, !.found = TRUE,
                                 !.vpaManager = s.managers[name]]
            IN IF ~r1.vpaManager.spec.enabled
               THEN [s EXCEPT !.rec = Return(r1, FALSE, 0, "success")]
               ELSE IF Failing(1, faults)
               THEN [s EXCEPT !.rec = Return([r1 EXCEPT !.calls = 2,
                                                        !.failed = {"namespaces"}],
                                             TRUE, 0, "error")]
               ELSE [s EXCEPT !.rec =
                        NextList([r1 EXCEPT
                            !.calls = 2,
                            !.nss = getMatchingNamespaces(
                                        r1.vpaManager.spec.namespaceSelector)])]

\* wc.Provider.List for the namespace and kind at hand; an error is logged
\* and the loop continues with the next kind.
ReconcileList(s, W) ==
    LET r == s.rec
        kind == WorkloadConfigs[r.cfg]
        found == ProviderList(W, kind, Head(r.nss),
                              SelectorOf(r.vpaManager.spec, kind))
    IN IF Failing(r.calls, r.faults)
       THEN [s EXCEPT !.rec = NextList([r EXCEPT !.calls = @ + 1, !.cfg = @ + 1,
                                                 !.failed = @ \cup {"list"}])]
       ELSE IF found = <<>>
       THEN [s EXCEPT !.rec = NextList([r EXCEPT !.calls = @ + 1, !.cfg = @ + 1])]
       ELSE [s EXCEPT !.rec = [r EXCEPT !.calls = @ + 1, !.pc = "ensure",
                                        !.wls = found,
                                        !.watchedWorkloadsCount = @ + Len(found)]]

\* ensureVPAForWorkload when a VPA that exists is left as it is.
ensureVPAForWorkloadKeepingSpec(V, calls, faults, vpaManager, kind, name, namespace, uid, vpaName) ==
    LET vpa == buildVPAForWorkload(vpaManager, kind, name, namespace, uid, vpaName)
        key == <<namespace, vpaName>>
    IN IF Failing(calls, faults)
       THEN [vpas |-> V, calls |-> calls + 1, created |-> FALSE, err |-> TRUE,
             writes |-> <<>>]
       ELSE IF key \notin DOMAIN V
       THEN IF Failing(calls + 1, faults)
            THEN [vpas |-> V, calls |-> calls + 2, created |-> FALSE, err |-> TRUE,
                  writes |-> <<>>]
            ELSE [vpas |-> (key :> vpa) @@ V, calls |-> calls + 2,
                  created |-> TRUE, err |-> FALSE, writes |-> << <<"create", key>> >>]
       ELSE [vpas |-> V, calls |-> calls + 1, created |-> FALSE, err |-> FALSE,
             writes |-> <<>>]

\* ensureVPAForWorkload when a VPA that is found is replaced by the built
\* one, metadata and all.
ensureVPAForWorkloadReplacing(V, calls, faults, vpaManager, kind, name, namespace, uid, vpaName) ==
    LET vpa == buildVPAForWorkload(vpaManager, kind, name, namespace, uid, vpaName)
        key == <<namespace, vpaName>>
    IN IF Failing(calls, faults)
       THEN [vpas |-> V, calls |-> calls + 1, created |-> FALSE, err |-> TRUE,
             writes |-> <<>>]
       ELSE IF key \notin DOMAIN V
       THEN IF Failing(calls + 1, faults)
            THEN [vpas |-> V, calls |-> calls + 2, created |-> FALSE, err |-> TRUE,
                  writes |-> <<>>]
            ELSE [vpas |-> (key :> vpa) @@ V, calls |-> calls + 2,
                  created |-> TRUE, err |-> FALSE, writes |-> << <<"create", key>> >>]
       ELSE IF Failing(calls + 1, faults)
            THEN [vpas |-> V, calls |-> calls + 2, created |-> FALSE, err |-> TRUE,
                  writes |-> <<>>]
            ELSE [vpas |-> [V EXCEPT ![key] = vpa], calls |-> calls + 2,
                  created |-> FALSE, err |-> FALSE, writes |-> << <<"update", key>> >>]

\* ensureVPAForWorkload: build, Get, then Create (not found) or overwrite
\* spec and Update (found).  Result: [vpas, calls, created, err, writes].
ensureVPAForWorkload(V, calls, faults, vpaManager, kind, name, namespace, uid, vpaName) ==
    LET vpa == buildVPAForWorkload(vpaManager, kind, name, namespace, uid, vpaName)
        key == <<namespace, vpaName>>
    IN IF Failing(calls, faults)
       THEN [vpas |-> V, calls |-> calls + 1, created |-> FALSE, err |-> TRUE,
             writes |-> <<>>]
       ELSE IF key \notin DOMAIN V
       THEN IF Failing(calls + 1, faults)
            THEN [vpas |-> V, calls |-> calls + 2, created |-> FALSE, err |-> TRUE,
                  writes |-> <<>>]
            ELSE [vpas |-> (key :> vpa) @@ V, calls |-> calls + 2,
                  created |-> TRUE, err |-> FALSE, writes |-> << <<"create", key>> >>]
       ELSE IF Failing(calls + 1, faults)
            THEN [vpas |-> V, calls |-> calls + 2, created |-> FALSE, err |-> TRUE,
                  writes |-> <<>>]
            ELSE [vpas |-> [V EXCEPT ![key].spec = vpa.spec], calls |-> calls + 2,
                  created |-> FALSE, err |-> FALSE, writes |-> << <<"update", key>> >>]

\* The WorkloadReference appended to managedWorkloads.
WorkloadReference(wl, vpaName) ==
    [kind |-> wl.kind, name |-> wl.name, namespace |-> wl.namespace,
     uid |-> wl.uid, vpaName |-> vpaName]

\* The body of the loop over the listed workloads when an ensure error ends
\* the reconcile.
ReconcileEnsureAborting(s) ==
    LET r == s.rec
        wl == Head(r.wls)
        vpaName == VpaName(wl.name)
        e == ensureVPAForWorkload(s.vpas, r.calls, r.faults, r.vpaManager,
                                  wl.kind, wl.name, wl.namespace, wl.uid, vpaName)
        r1 == [r EXCEPT !.calls = e.calls, !.wls = Tail(@),
                        !.writes = @ \o e.writes]
        r2 == [r1 EXCEPT
                 !.ops = IF e.created
                         THEN Append(@, <<"create", r.vpaManager.name>>)
                         ELSE @,
                 !.managedWorkloads = Append(@, WorkloadReference(wl, vpaName))]
    IN IF e.err
       THEN [s EXCEPT !.rec = Return([r1 EXCEPT !.failed = @ \cup {"ensure"}],
                                     TRUE, 0, "error")]
       ELSE [s EXCEPT !.vpas = e.vpas,
                      !.rec = IF r2.wls = <<>>
                              THEN NextList([r2 EXCEPT !.cfg = @ + 1])
                              ELSE r2]

\* The body of the loop over the listed workloads.
ReconcileEnsure(s) ==
    LET r == s.rec
        wl == Head(r.wls)
        vpaName == VpaName(wl.name)
        e == ensureVPAForWorkload(s.vpas, r.calls, r.faults, r.vpaManager,
                                  wl.kind, wl.name, wl.namespace, wl.uid, vpaName)
        r1 == [r EXCEPT !.calls = e.calls, !.wls = Tail(@),
                        !.writes = @ \o e.writes]
        r2 == IF e.err THEN [r1 EXCEPT !.failed = @ \cup {"ensure"}]
              ELSE [r1 EXCEPT
                      !.ops = IF e.created
                              THEN Append(@, <<"create", r.vpaManager.name>>)
                              ELSE @,
                      !.managedWorkloads = Append(@, WorkloadReference(wl, vpaName))]
    IN [s EXCEPT !.vpas = e.vpas,
                 !.rec = IF r2.wls = <<>>
                         THEN NextList([r2 EXCEPT !.cfg = @ + 1])
                         ELSE r2]

\* currentVPAs of cleanupOrphanedVPAs: the keys of the workloads at hand.
CurrentVPAs(currentWorkloads) ==
    {<<currentWorkloads[i].namespace, currentWorkloads[i].vpaName>> :
        i \in 1..Len(currentWorkloads)}

\* The VPAs that carry the operator's label, whoever created them.
ListOperatorVPAs(V, vpaManagerName) ==
    LET keys == [i \in 1..(Len(NsOrder) * Len(NameOrder)) |->
                    <<NsOrder[((i - 1) \div Len(NameOrder)) + 1],
                      VpaName(NameOrder[((i - 1) % Len(NameOrder)) + 1])>>]
    IN SelectSeq(keys, LAMBDA k :
            /\ k \in DOMAIN V
            /\ V[k].labels.managedBy = ManagedByKey)

\* The VPAs that carry both ownership labels of the manager, in list order.
ListManagedVPAs(V, vpaManagerName) ==
    LET keys == [i \in 1..(Len(NsOrder) * Len(NameOrder)) |->
                    <<NsOrder[((i - 1) \div Len(NameOrder)) + 1],
                      VpaName(NameOrder[((i - 1) % Len(NameOrder)) + 1])>>]
    IN SelectSeq(keys, LAMBDA k :
            /\ k \in DOMAIN V
            /\ V[k].labels.managedBy = ManagedByKey
            /\ V[k].labels.createdBy = vpaManagerName)

\* cleanupOrphanedVPAs when the listed VPAs are all taken as current.
ReconcileSweepListKeepingAll(s) ==
    [s EXCEPT !.rec = [s.rec EXCEPT !.calls = @ + 1, !.items = <<>>,
                                    !.pc = "patch"]]

\* cleanupOrphanedVPAs up to its loop: List the manager's VPAs; the loop
\* will visit those that are not in currentVPAs.
ReconcileSweepList(s) ==
    LET r == s.rec
        current == CurrentVPAs(r.managedWorkloads)
        listed == ListManagedVPAs(s.vpas, r.vpaManager.name)
        orphans == SelectSeq(listed, LAMBDA k : k \notin current)
    IN IF Failing(r.calls, r.faults)
       THEN [s EXCEPT !.rec = [r EXCEPT !.calls = @ + 1, !.pc = "patch",
                                        !.sweepErr = TRUE,
                                        !.failed = @ \cup {"sweep"}]]
       ELSE [s EXCEPT !.rec = [r EXCEPT !.calls = @ + 1, !.items = orphans,
                                        !.pc = IF orphans = <<>> THEN "patch"
                                               ELSE "sweepDelete"]]

\* One Delete of the cleanup loop: not found counts as deleted, any other
\* error ends the cleanup.
ReconcileSweepDelete(s, W) ==
    LET r == s.rec
        key == Head(r.items)
    IN IF Failing(r.calls, r.faults)
       THEN [s EXCEPT !.rec = [r EXCEPT !.calls = @ + 1, !.pc = "patch",
                                        !.sweepErr = TRUE, !.items = <<>>,
                                        !.failed = @ \cup {"sweep", "delete"}]]
       ELSE [s EXCEPT
               !.vpas = [k \in (DOMAIN @) \ {key} |-> @[k]],
               !.rec = [r EXCEPT !.calls = @ + 1, !.items = Tail(@),
                                 !.deleted = @ + 1,
                                 !.lastDeleted = IF key \in DOMAIN s.vpas
                                                 THEN key ELSE @,
                                 !.workloadsAtDelete = IF key \in DOMAIN s.vpas
                                                       THEN W ELSE @,
                                 !.writes = IF key \in DOMAIN s.vpas
                                            THEN Append(@, <<"delete", key>>)
                                            ELSE @,
                                 !.pc = IF Tail(r.items) = <<>> THEN "patch"
                                        ELSE "sweepDelete"]]

\* The status when the new list of workloads is appended to the list of the
\* copy of the manager instead of replacing it.
NewStatusAccumulating(vpaManager, managedWorkloads, now) ==
    LET all == vpaManager.status.managedWorkloads \o managedWorkloads IN
    [vpaManager.status EXCEPT
        !.managedVPAs = Len(all),
        !.managedDeployments = all,
        !.managedWorkloads = all,
        !.lastReconcileTime = now]

\* The status the reconciler computes: statusUpdate.Status.
NewStatus(vpaManager, managedWorkloads, now) ==
    [vpaManager.status EXCEPT
        !.managedVPAs = Len(managedWorkloads),
        !.managedDeployments = managedWorkloads,
        !.managedWorkloads = managedWorkloads,
        !.lastReconcileTime = now]

\* Status().Patch(statusUpdate, client.MergeFrom(vpaManager)): the fields of
\* the status that differ from the manager as read are written.
MergePatchStatus(current, original, update) ==
    [f \in DOMAIN current |->
        IF update[f] # original[f] THEN update[f] ELSE current[f]]

RECURSIVE Repeat(_, _)
Repeat(x, n) == IF n = 0 THEN <<>> ELSE <<x>> \o Repeat(x, n - 1)

\* Reconcile's status patch when a failed patch undoes the VPA writes of
\* the pass.
ReconcilePatchRollingBack(s) ==
    LET r == s.rec
        name == r.vpaManager.name
        r1 == [r EXCEPT !.ops = @ \o Repeat(<<"delete", name>>, r.deleted)]
        update == NewStatus(r.vpaManager, r.managedWorkloads, r.now)
    IN IF Failing(r.calls, r.faults) \/ name \notin DOMAIN s.managers
       THEN [s EXCEPT !.vpas = r.before,
                      !.rec = Return([r1 EXCEPT !.calls = @ + 1,
                                               !.failed = @ \cup {"patch"}],
                                     TRUE, 0, "error")]
       ELSE [s EXCEPT
               !.managers = [@ EXCEPT ![name].status =
                                MergePatchStatus(@, r.vpaManager.status, update)],
               !.rec = Return([r1 EXCEPT
                                 !.calls = @ + 1, !.patched = TRUE,
                                 !.gauges = <<Len(r.managedWorkloads),
                                              r.watchedWorkloadsCount>>],
                              FALSE, RequeueSeconds, "success")]

\* Reconcile's status write as a full update of the object read at the
\* start: the API server refuses it when the manager has changed since.
ReconcilePatchByUpdate(s) ==
    LET r == s.rec
        name == r.vpaManager.name
        r1 == [r EXCEPT !.ops = @ \o Repeat(<<"delete", name>>, r.deleted)]
        update == NewStatus(r.vpaManager, r.managedWorkloads, r.now)
    IN IF \/ Failing(r.calls, r.faults)
          \/ name \notin DOMAIN s.managers
          \/ s.managers[name] # r.vpaManager
       THEN [s EXCEPT !.rec = Return([r1 EXCEPT !.calls = @ + 1,
                                                !.failed = @ \cup {"patch"}],
                                     TRUE, 0, "error")]
       ELSE [s EXCEPT
               !.managers = [@ EXCEPT ![name].status = update],
               !.rec = Return([r1 EXCEPT
                                 !.calls = @ + 1, !.patched = TRUE,
                                 !.gauges = <<Len(r.managedWorkloads),
                                              r.watchedWorkloadsCount>>],
                              FALSE, RequeueSeconds, "success")]

\* Reconcile after the cleanup when it returns an empty Result on success.
ReconcilePatchWithoutRequeue(s) ==
    LET r == s.rec
        name == r.vpaManager.name
        r1 == [r EXCEPT !.ops = @ \o Repeat(<<"delete", name>>, r.deleted)]
        update == NewStatus(r.vpaManager, r.managedWorkloads, r.now)
    IN IF Failing(r.calls, r.faults) \/ name \notin DOMAIN s.managers
       THEN [s EXCEPT !.rec = Return([r1 EXCEPT !.calls = @ + 1,
                                                !.failed = @ \cup {"patch"}],
                                     TRUE, 0, "error")]
       ELSE [s EXCEPT
               !.managers = [@ EXCEPT ![name].status =
                                MergePatchStatus(@, r.vpaManager.status, update)],
               !.rec = Return([r1 EXCEPT
                                 !.calls = @ + 1, !.patched = TRUE,
                                 !.gauges = <<Len(r.managedWorkloads),
                                              r.watchedWorkloadsCount>>],
                              FALSE, 0, "success")]

\* Reconcile after the cleanup: the delete operations, the status patch,
\* the gauges and the outcome.
ReconcilePatch(s) ==
    LET r == s.rec
        name == r.vpaManager.name
        r1 == [r EXCEPT !.ops = @ \o Repeat(<<"delete", name>>, r.deleted)]
        update == NewStatus(r.vpaManager, r.managedWorkloads, r.now)
    IN IF Failing(r.calls, r.faults) \/ name \notin DOMAIN s.managers
       THEN [s EXCEPT !.rec = Return([r1 EXCEPT !.calls = @ + 1,
                                                !.failed = @ \cup {"patch"}],
                                     TRUE, 0, "error")]
       ELSE [s EXCEPT
               !.managers = [@ EXCEPT ![name].status =
                                MergePatchStatus(@, r.vpaManager.status, update)],
               !.rec = Return([r1 EXCEPT
                                 !.calls = @ + 1, !.patched = TRUE,
                                 !.gauges = <<Len(r.managedWorkloads),
                                              r.watchedWorkloadsCount>>],
                              FALSE, RequeueSeconds, "success")]

\* Reconcile from one suspension point to the next.
ReconcileStep(s, W) ==
    CASE s.rec.pc = "list" -> ReconcileList(s, W)
      [] s.rec.pc = "ensure" -> ReconcileEnsure(s)
      [] s.rec.pc = "sweepList" -> ReconcileSweepList(s)
      [] s.rec.pc = "sweepDelete" -> ReconcileSweepDelete(s, W)
      [] s.rec.pc = "patch" -> ReconcilePatch(s)

\* Reconcile from the point it is at to its return.
RECURSIVE ReconcileRun(_, _)
ReconcileRun(s, W) ==
    IF s.rec.pc = "done" THEN s ELSE ReconcileRun(ReconcileStep(s, W), W)

\* The whole of Reconcile for one request.
Reconcile(M, V, W, name, faults, now) ==
    ReconcileRun(ReconcileBegin([managers |-> M, vpas |-> V, rec |-> IdleFrame],
                                name, faults, now), W)


VARIABLES
    managers,   \* VpaManager objects: name -> [name, spec, status]
    workloads,  \* workloads: <<kind, ns, name>> -> [labels, uid]
    vpas,       \* VPA objects: <<ns, name>> -> VPA
    clock,      \* the API server's time, advanced by each reconcile pass
    rec,        \* the reconciler worker's frame
    adm         \* the last admission call and its response

vars == <<managers, workloads, vpas, clock, rec, adm>>

(***************************************************************************)
(* The actions.                                                            *)
(***************************************************************************)
HandlerKinds == {"Deployment", "StatefulSet"}
Operations == {"CREATE", "UPDATE", "DELETE", "CONNECT"}

NoAdmission ==
    [kind |-> "", req |-> [operation |-> ""], called |-> FALSE, allowed |-> TRUE,
     err |-> FALSE, match |-> NoManager, oldMatch |-> NoManager,
     ops |-> <<>>, writes |-> <<>>, webhookRequest |-> <<>>,
     error |-> NilError, webhookRequestsTotal |-> <<>>,
     before |-> <<>>, vpas |-> <<>>, at |-> 0]

Remove(f, k) == [x \in (DOMAIN f) \ {k} |-> f[x]]

\* What the API server does with the workload once the request is admitted.
Persist(W, kind, req) ==
    LET slot == <<kind, req.namespace, req.name>> IN
    CASE req.operation = "CREATE" /\ slot \notin DOMAIN W ->
            (slot :> [labels |-> req.labels, uid |-> req.uid]) @@ W
      [] req.operation = "UPDATE" /\ slot \in DOMAIN W ->
            [W EXCEPT ![slot].labels = req.labels]
      [] req.operation = "DELETE" /\ slot \in DOMAIN W -> Remove(W, slot)
      [] OTHER -> W

\* One admission request for a workload of a kind that has a handler: the
\* handler runs, then the API server persists the admitted change.  A
\* behaviour follows one request through the handler.
Admit(kind, operation, ns, name, labels, undecodable, faults, failure) ==
    LET slot == <<kind, ns, name>>
        old == IF slot \in DOMAIN workloads THEN workloads[slot].labels ELSE {}
        req == [operation |-> operation, namespace |-> ns, name |-> name,
                labels |-> IF operation \in {"CREATE", "UPDATE"} THEN labels ELSE {},
                oldLabels |-> IF operation \in {"UPDATE", "DELETE"} THEN old ELSE {},
                uid |-> UIDOf(kind, ns, name), undecodable |-> undecodable]
        resp == Handle(kind, managers, vpas, req, faults, failure)
    IN /\ ~adm.called
       /\ operation = "CREATE" =>
            slot \in DOMAIN workloads \/ Cardinality(DOMAIN workloads) < MaxWorkloads
       /\ operation \in {"UPDATE", "DELETE"} => slot \in DOMAIN workloads
       /\ operation = "UPDATE" => labels # old
       /\ operation \notin {"CREATE", "UPDATE"} => labels = {}
       /\ \E r \in {resp} :
            /\ adm' = [r EXCEPT !.at = clock]
            /\ vpas' = r.vpas
            /\ workloads' = IF r.allowed THEN Persist(workloads, kind, req)
                            ELSE workloads
       /\ UNCHANGED <<managers, clock, rec>>

AdmitCreate ==
    \E kind \in HandlerKinds, ns \in NsNames, name \in Names, labels \in LabelSets :
        Admit(kind, "CREATE", ns, name, labels, FALSE, {}, NilError)

AdmitUpdate ==
    \E kind \in HandlerKinds, ns \in NsNames, name \in Names, labels \in LabelSets :
        Admit(kind, "UPDATE", ns, name, labels, FALSE, {}, NilError)

AdmitDelete ==
    \E kind \in HandlerKinds, ns \in NsNames, name \in Names :
        Admit(kind, "DELETE", ns, name, {}, FALSE, {}, NilError)

AdmitOther ==
    \E kind \in HandlerKinds, ns \in NsNames, name \in Names :
        Admit(kind, "CONNECT", ns, name, {}, FALSE, {}, NilError)

\* The CREATE request that was just admitted arrives a second time (the API
\* server or the client retries it); retryOf keeps the first response.
AdmitRetry ==
    /\ adm.called
    /\ adm.req.operation = "CREATE"
    /\ "retryOf" \notin DOMAIN adm
    /\ \E r \in {Handle(adm.kind, managers, vpas, adm.req, {}, NilError)} :
            /\ adm' = [r EXCEPT !.at = clock] @@ [retryOf |-> adm]
            /\ vpas' = r.vpas
            /\ workloads' = IF r.allowed THEN Persist(workloads, adm.kind, adm.req)
                            ELSE workloads
    /\ UNCHANGED <<managers, clock, rec>>

\* The handler makes at most six API calls (UPDATE: two matchings of two
\* calls each, then Get and Create or Update).
AdmissionFaults == {{}} \cup {{i} : i \in 1..6}

\* The errors the decoder and the API server return.
HandlerFailures ==
    {ErrorOf(m) : m \in {Text.invalid, Text.notFound, Text.alreadyExists,
                         Text.connectionRefused, Piece.modified}}

\* A request whose object does not decode (an invalid character) or whose
\* API call fails (the connection is refused).
AdmitFailing ==
    \E kind \in HandlerKinds, operation \in Operations, ns \in NsNames,
       name \in Names, labels \in LabelSets, undecodable \in BOOLEAN,
       faults \in AdmissionFaults :
        /\ undecodable \/ faults # {}
        /\ Admit(kind, operation, ns, name, labels, undecodable, faults,
                 IF undecodable THEN ErrorOf(Text.invalid)
                 ELSE ErrorOf(Text.connectionRefused))

\* The same with any of the errors.
AdmitFailingWith ==
    /\ ~adm.called
    /\ \E kind \in HandlerKinds, operation \in Operations, ns \in NsNames,
          name \in Names, labels \in LabelSets, undecodable \in BOOLEAN,
          faults \in AdmissionFaults, failure \in HandlerFailures :
            /\ undecodable \/ faults # {}
            /\ Admit(kind, operation, ns, name, labels, undecodable, faults, failure)

\* A change of a workload that no handler sees: DaemonSets have no webhook.
WorkloadChange ==
    \E kind \in Kinds \ HandlerKinds, ns \in NsNames, name \in Names,
       labels \in LabelSets :
        LET slot == <<kind, ns, name>> IN
        /\ \/ /\ slot \notin DOMAIN workloads
              /\ Cardinality(DOMAIN workloads) < MaxWorkloads
              /\ workloads' = (slot :> [labels |-> labels,
                                        uid |-> UIDOf(kind, ns, name)]) @@ workloads
           \/ /\ slot \in DOMAIN workloads
              /\ labels # workloads[slot].labels
              /\ workloads' = [workloads EXCEPT ![slot].labels = labels]
           \/ /\ slot \in DOMAIN workloads
              /\ labels = {}
              /\ workloads' = Remove(workloads, slot)
        /\ UNCHANGED <<managers, vpas, clock, rec, adm>>

Here == [managers |-> managers, vpas |-> vpas, rec |-> rec]

Install(s) ==
    /\ managers' = s.managers
    /\ vpas' = s.vpas
    /\ rec' = s.rec

\* One whole reconcile of the request, with the API calls in faults failing.
ReconcilePass(name, faults) ==
    /\ rec.pc \in {"idle", "done"}
    /\ clock < MaxPasses
    /\ clock' = clock + 1
    /\ \E s \in {Reconcile(managers, vpas, workloads, name, faults, clock + 1)} :
            Install(s)
    /\ UNCHANGED <<workloads, adm>>

\* The requests the worker receives: for a manager that exists, or for m1
\* after it has been deleted.
Requested(name) == name \in DOMAIN managers \/ name = "m1"

ReconcileOnce == \E name \in MgrNames : Requested(name) /\ ReconcilePass(name, {})

\* A reconcile makes at most MaxCalls API calls: the manager, the
\* namespaces, a List per namespace and kind, Get and a write per workload,
\* the List and the Deletes of the cleanup, the status patch.
MaxCalls ==
    2 + Len(NsOrder) * Len(WorkloadConfigs) + 2 * MaxWorkloads
      + 1 + Cardinality(VpaKeys) + 1
ReconcileFaults == {{i} : i \in 1..MaxCalls}

ReconcileFailing ==
    \E name \in MgrNames, faults \in ReconcileFaults :
        /\ Requested(name)
        /\ rec.failed = {}
        /\ ReconcilePass(name, faults)
        /\ rec'.failed # {}

\* The reconcile worker, one suspension point at a time.
ReconcileStart ==
    \E name \in MgrNames :
        /\ Requested(name)
        /\ rec.pc \in {"idle", "done"}
        /\ clock < MaxPasses
        /\ clock' = clock + 1
        /\ \E s \in {ReconcileBegin([Here EXCEPT !.rec = IdleFrame], name, {},
                                     clock + 1)} :
                Install(s)
        /\ UNCHANGED <<workloads, adm>>

ReconcileContinue ==
    /\ rec.pc \notin {"idle", "done"}
    /\ \E s \in {ReconcileStep(Here, workloads)} : Install(s)
    /\ UNCHANGED <<workloads, clock, adm>>

\* The periodic requeue: the reconcile of the manager starts again.  Times
\* from MaxPasses on are not told apart.
ReconcileRequeued(name) ==
    /\ Requested(name)
    /\ rec.pc \in {"idle", "done"}
    /\ clock' = IF clock < MaxPasses THEN clock + 1 ELSE clock
    /\ \E s \in {ReconcileBegin([Here EXCEPT !.rec = IdleFrame], name, {},
                                 IF clock < MaxPasses THEN clock + 1 ELSE clock)} :
            Install(s)
    /\ UNCHANGED <<workloads, adm>>

\* Another writer updates the spec of a manager while a reconcile of it is
\* under way.
ManagerEdit ==
    \E name \in DOMAIN managers, updateMode \in UpdateModes :
        /\ rec.pc \notin {"idle", "done"}
        /\ rec.req = name
        /\ updateMode # managers[name].spec.updateMode
        /\ managers' = [managers EXCEPT ![name].spec.updateMode = updateMode]
        /\ UNCHANGED <<workloads, vpas, clock, rec, adm>>

(***************************************************************************)
(* Initial states.                                                         *)
(***************************************************************************)
ManagerSpec(enabled, updateMode, ns, dep, sts, ds, rp) ==
    [enabled |-> enabled, updateMode |-> updateMode, namespaceSelector |-> ns,
     deploymentSelector |-> dep, statefulSetSelector |-> sts,
     daemonSetSelector |-> ds, resourcePolicy |-> rp]

Manager(name, spec) == [name |-> name, spec |-> spec, status |-> EmptyStatus]

MatchAll == Selector({})

\* A manager that selects every workload of every kind in every namespace.
CatchAll(name, updateMode) ==
    Manager(name, ManagerSpec(TRUE, updateMode, MatchAll, MatchAll, MatchAll,
                              MatchAll, NoPolicy))

\* The VPAs a cluster may hold at <<ns, name-vpa>> before the operator acts:
\* written by the StatefulSet handler for m1 under an earlier update mode,
\* owned by the manager m2, or made by a user.
EarlierVPAs(ns, name) ==
    LET obj == [namespace |-> ns, name |-> name, labels |-> {},
                uid |-> UIDOf("StatefulSet", ns, name)]
    IN { buildVPA("StatefulSet", CatchAll("m1", "Off"), obj, VpaName(name)),
         buildVPAForWorkload(CatchAll("m2", "Initial"), "Deployment", name, ns,
                             UIDOf("Deployment", ns, name), VpaName(name)),
         [name |-> VpaName(name), namespace |-> ns,
          labels |-> [managedBy |-> "", createdBy |-> ""],
          ownerReferences |-> <<>>,
          spec |-> BuildSpec(CatchAll("", "Off"), "Deployment", name)] }

WorkloadsOf(slot) ==
    {[labels |-> l, uid |-> UIDOf(slot[1], slot[2], slot[3])] : l \in LabelSets}

VPAsOf(key) == EarlierVPAs(key[1], CHOOSE n \in Names : VpaName(n) = key[2])

\* The workload maps with at most n of the slots S filled.
RECURSIVE WorkloadMaps(_, _)
WorkloadMaps(S, n) ==
    IF n = 0 \/ S = {} THEN {<<>>}
    ELSE LET k == CHOOSE x \in S : TRUE
         IN WorkloadMaps(S \ {k}, n)
            \cup {(k :> v) @@ m : v \in WorkloadsOf(k), m \in WorkloadMaps(S \ {k}, n - 1)}

\* The VPA maps with at most n of the keys S filled.
RECURSIVE VPAMaps(_, _)
VPAMaps(S, n) ==
    IF n = 0 \/ S = {} THEN {<<>>}
    ELSE LET k == CHOOSE x \in S : TRUE
         IN VPAMaps(S \ {k}, n)
            \cup {(k :> v) @@ m : v \in VPAsOf(k), m \in VPAMaps(S \ {k}, n - 1)}

\* The policies the reconciler is run under.
ReconcilerSpecs ==
    {ManagerSpec(TRUE, "Auto", ns, dep, sts, ds, NoPolicy) :
        ns \in Selectors, dep \in Selectors,
        sts \in {NilSelector, Selector({"vpa-enabled=true"})},
        ds \in {NilSelector, MatchAll}}
    \cup {ManagerSpec(FALSE, "Auto", MatchAll, MatchAll, MatchAll, MatchAll, NoPolicy)}

InitCommon ==
    /\ clock = 0
    /\ rec = IdleFrame
    /\ adm = NoAdmission

\* A cluster the reconciler finds: the manager m1, or no manager at all,
\* and the workloads and VPAs of earlier activity.
InitReconciler ==
    /\ InitCommon
    /\ \/ \E spec \in ReconcilerSpecs : managers = ("m1" :> Manager("m1", spec))
       \/ managers = <<>>
    /\ workloads \in WorkloadMaps(Slots, MaxWorkloads)
    /\ vpas \in VPAMaps(VpaKeys, MaxVPAs)

NextReconciler == ReconcileOnce

SpecReconciler == InitReconciler /\ [][NextReconciler]_vars

\* The workloads of the kinds that have an admission handler.
HandlerSlots == {slot \in Slots : slot[1] \in HandlerKinds}

\* The policies the reconciler is run under when API calls fail.
FaultySpecs ==
    {ManagerSpec(TRUE, "Auto", ns, MatchAll, Selector({"vpa-enabled=true"}), NilSelector,
                 NoPolicy) : ns \in {NilSelector, Selector({"vpa-enabled=true"})}}

InitFaults ==
    /\ InitCommon
    /\ \E spec \in FaultySpecs : managers = ("m1" :> Manager("m1", spec))
    /\ workloads \in WorkloadMaps(HandlerSlots, MaxWorkloads)
    /\ vpas \in VPAMaps(VpaKeys, MaxVPAs)

NextFaults == ReconcileOnce \/ ReconcileFailing

SpecFaults == InitFaults /\ [][NextFaults]_vars

\* The reconciler with failing API calls and a request whose manager may be
\* gone.
InitLoad ==
    /\ InitCommon
    /\ \/ \E spec \in FaultySpecs : managers = ("m1" :> Manager("m1", spec))
       \/ managers = <<>>
    /\ workloads \in WorkloadMaps(Slots, MaxWorkloads - 1)
    /\ vpas \in VPAMaps(VpaKeys, MaxVPAs)

SpecLoad == InitLoad /\ [][NextFaults]_vars

\* The reconciler with failing API calls in a cluster that holds more VPAs
\* than workloads, so that a sweep has several orphans to delete.
InitSweepFaults ==
    /\ InitCommon
    /\ \E spec \in FaultySpecs : managers = ("m1" :> Manager("m1", spec))
    /\ workloads \in WorkloadMaps(Slots, MaxWorkloads - 1)
    /\ vpas \in VPAMaps(VpaKeys, MaxVPAs + 1)

SpecSweepFaults == InitSweepFaults /\ [][NextFaults]_vars

\* The managers the admission handlers find: m1 under any policy of the
\* kinds that have a handler, and m2 absent or selecting everything.
AdmissionSpecs ==
    {ManagerSpec(TRUE, "Auto", ns, dep, sts, NilSelector, NoPolicy) :
        ns \in Selectors, dep \in Selectors, sts \in Selectors}
    \cup {ManagerSpec(FALSE, "Auto", MatchAll, MatchAll, MatchAll, NilSelector,
                      NoPolicy)}

AdmissionManagers ==
    {("m1" :> Manager("m1", spec)) : spec \in AdmissionSpecs}
    \cup {("m1" :> Manager("m1", spec)) @@ ("m2" :> CatchAll("m2", "Off")) :
            spec \in AdmissionSpecs}


\* The request's workload is one of at most MaxWorkloads.
InitAdmission ==
    /\ InitCommon
    /\ managers \in AdmissionManagers
    /\ workloads \in WorkloadMaps(HandlerSlots, MaxWorkloads - 1)
    /\ vpas \in VPAMaps(VpaKeys, MaxVPAs)

NextAdmission == AdmitCreate \/ AdmitUpdate \/ AdmitDelete \/ AdmitOther

SpecAdmission == InitAdmission /\ [][NextAdmission]_vars

\* A CREATE request and its retry.
NextAdmissionRetry == AdmitCreate \/ AdmitRetry

SpecAdmissionRetry == InitAdmission /\ [][NextAdmissionRetry]_vars

\* The same requests when the object does not decode or an API call fails.
InitAdmissionFaults ==
    /\ InitCommon
    /\ managers \in {("m1" :> CatchAll("m1", "Auto")),
                      ("m1" :> CatchAll("m1", "Auto")) @@ ("m2" :> CatchAll("m2", "Off"))}
    /\ workloads \in WorkloadMaps(HandlerSlots, MaxWorkloads - 1)
    /\ vpas \in VPAMaps(VpaKeys, MaxVPAs)

NextAdmissionFaults ==
    AdmitCreate \/ AdmitUpdate \/ AdmitDelete \/ AdmitOther \/ AdmitFailing

SpecAdmissionFaults == InitAdmissionFaults /\ [][NextAdmissionFaults]_vars

\* The requests the handlers record: of any operation, met by any error.
InitMetrics ==
    /\ InitCommon
    /\ managers = ("m1" :> CatchAll("m1", "Auto"))
    /\ workloads \in WorkloadMaps(HandlerSlots, 1)
    /\ vpas \in VPAMaps(VpaKeys, 1)

NextMetrics == AdmitCreate \/ AdmitOther \/ AdmitFailingWith

SpecMetrics == InitMetrics /\ [][NextMetrics]_vars

\* A CREATE is admitted in a cluster without VPAs and the managers are
\* reconciled, before or after.
InitAdmitThenReconcile ==
    /\ InitCommon
    /\ managers \in AdmissionManagers
    /\ workloads \in WorkloadMaps(HandlerSlots, MaxWorkloads - 1)
    /\ vpas = <<>>

NextAdmitThenReconcile == AdmitCreate \/ ReconcileOnce

SpecAdmitThenReconcile == InitAdmitThenReconcile /\ [][NextAdmitThenReconcile]_vars

\* The reconcile worker of m1 running next to the admission handlers and to
\* changes of workloads that no handler sees.
InitConcurrent ==
    /\ InitCommon
    /\ managers \in {("m1" :> CatchAll("m1", "Auto")),
                     ("m1" :> Manager("m1",
                        ManagerSpec(TRUE, "Auto", NilSelector,
                                    Selector({"vpa-enabled=true"}), MatchAll,
                                    NilSelector, NoPolicy)))}
    /\ workloads = <<>>
    /\ vpas = <<>>

NextConcurrent ==
    \/ ReconcileStart
    \/ ReconcileContinue
    \/ AdmitCreate
    \/ AdmitUpdate
    \/ AdmitDelete
    \/ WorkloadChange

SpecConcurrent == InitConcurrent /\ [][NextConcurrent]_vars

\* The reconciler alone, requeued for ever, in a cluster that has stopped
\* changing: m1 under a policy of its own, m2 absent or selecting everything.
RequeueSpecs ==
    {ManagerSpec(TRUE, "Auto", Selector({"vpa-enabled=true"}), dep,
                 Selector({"vpa-enabled=true"}), NilSelector, NoPolicy) :
        dep \in {NilSelector, MatchAll}}

InitRequeue ==
    /\ InitCommon
    /\ \E spec \in RequeueSpecs :
        managers \in {("m1" :> Manager("m1", spec)),
                      ("m1" :> Manager("m1", spec)) @@ ("m2" :> CatchAll("m2", "Off"))}
    /\ workloads \in WorkloadMaps(HandlerSlots, MaxWorkloads - 1)
    /\ vpas \in VPAMaps(VpaKeys, MaxVPAs)

NextRequeue == ReconcileContinue \/ \E name \in MgrNames : ReconcileRequeued(name)

\* A reconcile that has started runs to its end, and the requeue of every
\* manager is served again and again.
SpecRequeue ==
    /\ InitRequeue
    /\ [][NextRequeue]_vars
    /\ WF_vars(ReconcileContinue)
    /\ \A name \in MgrNames : SF_vars(ReconcileRequeued(name))

\* The reconciler, step by step, with another writer of the manager.
InitStatusPatch == InitRequeue

NextStatusPatch == ReconcileStart \/ ReconcileContinue \/ ManagerEdit

SpecStatusPatch == InitStatusPatch /\ [][NextStatusPatch]_vars

\* The two builders at work: m1 selects everything that has a handler, under
\* each update mode and each kind of resource policy.
BuilderSpecs ==
    {ManagerSpec(TRUE, c[1], MatchAll, MatchAll, MatchAll, NilSelector, c[2]) :
        c \in {<<"Off", NoPolicy>>, <<"Initial", EmptyPolicy>>,
               <<"Auto", OnePolicy>>, <<"Initial", TwoPolicies>>}}

InitBuilders ==
    /\ InitCommon
    /\ \E spec \in BuilderSpecs : managers = ("m1" :> Manager("m1", spec))
    /\ workloads \in WorkloadMaps(HandlerSlots, MaxWorkloads - 1)
    /\ vpas \in VPAMaps(VpaKeys, MaxVPAs)

NextBuilders == ReconcileOnce \/ AdmitCreate

SpecBuilders == InitBuilders /\ [][NextBuilders]_vars

(***************************************************************************)
(* The vocabulary of the properties.                                       *)
(***************************************************************************)
\* The workload is one the manager's policy selects: its namespace matches
\* the namespace selector (nil and empty select every namespace) and its
\* labels match the selector of its kind, which is set.
Selected(spec, kind, ns, labels) ==
    /\ \/ spec.namespaceSelector.isNil
       \/ spec.namespaceSelector.matchLabels \subseteq NsLabelsOf(ns)
    /\ ~SelectorOf(spec, kind).isNil
    /\ SelectorOf(spec, kind).matchLabels \subseteq labels

\* The VPA carries the two labels of the manager.
LabelledFor(vpa, vpaManagerName) ==
    vpa.labels = [managedBy |-> ManagedByKey, createdBy |-> vpaManagerName]

\* The last reconcile was of an enabled manager and returned without error.
ReconciledOK ==
    /\ rec.pc = "done"
    /\ rec.found
    /\ rec.vpaManager.spec.enabled
    /\ ~rec.err

(***************************************************************************)
(* Properties of the reconciler.                                           *)
(***************************************************************************)
\* C1: after a reconcile of an enabled manager M returns success, every
\* workload that M selects has the VPA <name>-vpa in its namespace, labelled
\* for M, whose targetRef names the workload's kind and name.
C1_EveryMatchingWorkloadHasItsVPA ==
    ReconciledOK =>
        \A slot \in DOMAIN workloads :
            Selected(rec.vpaManager.spec, slot[1], slot[2], workloads[slot].labels) =>
                LET key == <<slot[2], VpaName(slot[3])>> IN
                /\ key \in DOMAIN vpas
                /\ LabelledFor(vpas[key], rec.req)
                /\ vpas[key].spec.targetRef.kind = slot[1]
                /\ vpas[key].spec.targetRef.name = slot[3]

C10_ManagedVPAsIsSumOfCounts ==
    (ReconciledOK /\ rec.patched) =>
        LET st == managers[rec.req].status
        IN st.managedVPAs = st.deploymentCount + st.statefulSetCount + st.daemonSetCount

\* C2: after a reconcile of an enabled manager M returns success, no VPA
\* labelled for M is left whose workload (same namespace, the VPA's name
\* without "-vpa") is missing or is not selected by M.
C2_NoOrphanAfterSuccess ==
    ReconciledOK =>
        \A key \in DOMAIN vpas :
            LabelledFor(vpas[key], rec.req) =>
                \E slot \in DOMAIN workloads :
                    /\ slot[2] = key[1]
                    /\ VpaName(slot[3]) = key[2]
                    /\ Selected(rec.vpaManager.spec, slot[1], slot[2],
                                workloads[slot].labels)

(***************************************************************************)
(* Properties of the admission handlers.                                   *)
(***************************************************************************)
\* The VPA key of the admitted request.
AdmKey == <<adm.req.namespace, VpaName(adm.req.name)>>

\* The workload of the admitted request.
AdmSlot == <<adm.kind, adm.req.namespace, adm.req.name>>

\* The VPA the handler builds for the new object on behalf of manager m.
AdmBuilt(m) == buildVPA(adm.kind, managers[m], NewObject(adm.req), VpaName(adm.req.name))

\* C3: Handle allows every request, whatever the operation and whatever
\* failed inside (decoding, the manager List, the namespace Get, the VPA
\* Get, Create, Update or Delete).
C3_AlwaysAllowed == adm.called => adm.allowed

\* A handler whose work failed still answered.
C3_Witness ==
    /\ adm.called
    /\ adm.err
    /\ adm.webhookRequest[2] = "error"
    /\ adm.req.operation \in {"CREATE", "UPDATE", "DELETE"}

\* C5: on UPDATE the VPA action follows the transition matrix of
\* (oldMatch, newMatch): (none, none) writes nothing; (none, M) creates the
\* VPA if absent and records create under M; (M, none) deletes the VPA
\* (absent is fine) and records delete under M; (M, M') overwrites the spec
\* with the one built from M', creating the VPA if absent.
C5_UpdateTransitionMatrix ==
    (adm.called /\ adm.req.operation = "UPDATE" /\ ~adm.err) =>
        LET o == adm.oldMatch
            n == adm.match
            absent == AdmKey \notin DOMAIN adm.before
        IN /\ (o = NoManager /\ n = NoManager) =>
                /\ adm.writes = <<>>
                /\ adm.ops = <<>>
                /\ adm.vpas = adm.before
           /\ (o = NoManager /\ n # NoManager) =>
                /\ adm.ops = << <<"create", n>> >>
                /\ adm.writes = IF absent THEN << <<"create", AdmKey>> >> ELSE <<>>
                /\ adm.vpas = IF absent THEN (AdmKey :> AdmBuilt(n)) @@ adm.before
                              ELSE adm.before
           /\ (o # NoManager /\ n = NoManager) =>
                /\ adm.ops = << <<"delete", o>> >>
                /\ adm.writes = IF absent THEN <<>> ELSE << <<"delete", AdmKey>> >>
                /\ adm.vpas = Remove(adm.before, AdmKey)
           /\ (o # NoManager /\ n # NoManager) =>
                /\ adm.writes = << <<IF absent THEN "create" ELSE "update", AdmKey>> >>
                /\ adm.vpas = IF absent THEN (AdmKey :> AdmBuilt(n)) @@ adm.before
                              ELSE [adm.before EXCEPT ![AdmKey].spec = AdmBuilt(n).spec]

\* An UPDATE moved a workload from one manager to another while its VPA
\* existed with a different spec.
C5_Witness ==
    /\ adm.called
    /\ adm.req.operation = "UPDATE"
    /\ ~adm.err
    /\ adm.oldMatch # NoManager
    /\ adm.match \notin {NoManager, adm.oldMatch}
    /\ AdmKey \in DOMAIN adm.before
    /\ adm.vpas # adm.before

\* C6: admission never matches a workload to a manager whose selector for
\* the workload's kind is nil, and so never writes a VPA for it.
C6_NilKindSelectorNeverMatches ==
    adm.called =>
        \A m \in {adm.match, adm.oldMatch} \ {NoManager} :
            ~SelectorOf(managers[m].spec, adm.kind).isNil

\* C7: in both handlers an enabled manager with a nil or empty
\* namespaceSelector and a kind selector that matches the object is found,
\* whatever the labels of the namespace.
C7_NoNamespaceSelectorMatchesAnyNamespace ==
    (adm.called /\ adm.req.operation = "CREATE" /\ ~adm.err) =>
        ((\E m \in DOMAIN managers :
            LET spec == managers[m].spec IN
            /\ spec.enabled
            /\ (spec.namespaceSelector.isNil \/ spec.namespaceSelector.matchLabels = {})
            /\ ~SelectorOf(spec, adm.kind).isNil
            /\ SelectorOf(spec, adm.kind).matchLabels \subseteq adm.req.labels)
         => adm.match # NoManager)

(***************************************************************************)
(* Properties of the reconciler next to admission.                         *)
(***************************************************************************)
\* C4: in every interleaving the orphan cleanup deletes a VPA only if, at
\* that moment, no workload of the VPA's namespace and name exists that the
\* manager selects; VPAs created by admission during the pass included.
C4_SweepDeletesOnlyOrphans ==
    rec.lastDeleted # <<>> =>
        ~ \E slot \in DOMAIN rec.workloadsAtDelete :
            /\ slot[2] = rec.lastDeleted[1]
            /\ VpaName(slot[3]) = rec.lastDeleted[2]
            /\ Selected(rec.vpaManager.spec, slot[1], slot[2],
                        rec.workloadsAtDelete[slot].labels)

\* C8: when a CREATE admission of a workload created the VPA for manager M
\* and M is reconciled next, with success and nothing else changed, the VPA
\* is still there with the spec and the labels admission wrote.
C8_ReconcileAfterAdmissionKeepsVPA ==
    (/\ ReconciledOK
     /\ adm.called
     /\ adm.req.operation = "CREATE"
     /\ adm.writes = << <<"create", AdmKey>> >>
     /\ AdmSlot \in DOMAIN workloads
     /\ workloads[AdmSlot].labels = adm.req.labels
     /\ adm.match = rec.req
     /\ rec.now = adm.at + 1
     /\ rec.before = adm.vpas) =>
        /\ AdmKey \in DOMAIN vpas
        /\ vpas[AdmKey].spec = adm.vpas[AdmKey].spec
        /\ vpas[AdmKey].labels = adm.vpas[AdmKey].labels

\* The workloads of the kind whose VPA the pass ensured.
EnsuredOfKind(kind) ==
    Cardinality({i \in 1..Len(rec.managedWorkloads) :
                    rec.managedWorkloads[i].kind = kind})

\* C11: after a successful reconcile deploymentCount, statefulSetCount and
\* daemonSetCount are the numbers of Deployments, StatefulSets and
\* DaemonSets whose VPA the pass ensured.
C11_PerKindCounts ==
    (ReconciledOK /\ rec.patched) =>
        LET st == managers[rec.req].status
        IN /\ st.deploymentCount = EnsuredOfKind("Deployment")
           /\ st.statefulSetCount = EnsuredOfKind("StatefulSet")
           /\ st.daemonSetCount = EnsuredOfKind("DaemonSet")

\* C12: after a successful reconcile status.managedVPAs is the number of
\* VPAs in the cluster that carry the two labels of the manager.
C12_ManagedVPAsCountsLabelledVPAs ==
    (ReconciledOK /\ rec.patched) =>
        managers[rec.req].status.managedVPAs =
            Cardinality({key \in DOMAIN vpas : LabelledFor(vpas[key], rec.req)})

\* C13: when a successful reconcile of M is followed at once by another,
\* the second pass issues no VPA create, update or delete, leaves the VPAs
\* as they are, and changes nothing in the status but lastReconcileTime.
C13_SecondPassWritesNothing ==
    [][(/\ ReconciledOK
        /\ rec'.pc = "done"
        /\ rec'.req = rec.req
        /\ rec'.found
        /\ ~rec'.err
        /\ rec'.now = rec.now + 1) =>
            /\ rec'.writes = <<>>
            /\ vpas' = vpas
            /\ [managers'[rec.req].status EXCEPT !.lastReconcileTime = 0]
                 = [managers[rec.req].status EXCEPT !.lastReconcileTime = 0]]_vars

\* C14: a second CREATE admission of the same workload finds the VPA the
\* first one left, issues no create and no update, leaves the VPAs as they
\* are and is allowed: the workload has exactly one VPA.
C14_CreateRetryIsNoOp ==
    ("retryOf" \in DOMAIN adm /\ ~adm.retryOf.err /\ adm.retryOf.match # NoManager) =>
        /\ adm.allowed
        /\ ~adm.err
        /\ adm.writes = <<>>
        /\ AdmKey \in DOMAIN adm.retryOf.vpas
        /\ adm.vpas = adm.retryOf.vpas
        /\ vpas = adm.retryOf.vpas

\* The first admission created the VPA and the request came again.
C14_Witness ==
    /\ "retryOf" \in DOMAIN adm
    /\ adm.retryOf.writes = << <<"create", AdmKey>> >>
    /\ adm.match # NoManager
    /\ AdmKey \in DOMAIN vpas

\* The enabled managers that select the object image with the given labels
\* of the admitted request.
AdmSelecting(labels) ==
    {m \in DOMAIN managers :
        /\ managers[m].spec.enabled
        /\ Selected(managers[m].spec, adm.kind, adm.req.namespace, labels)}

\* C15: on DELETE, when an enabled manager selects the prior object image
\* the VPA is deleted (absent is fine) and a delete is recorded under that
\* manager; when none does, no VPA is deleted or modified.
C15_DeleteFollowsPriorMatch ==
    (adm.called /\ adm.req.operation = "DELETE" /\ ~adm.err) =>
        LET matching == AdmSelecting(adm.req.oldLabels)
        IN /\ matching # {} =>
                /\ adm.vpas = Remove(adm.before, AdmKey)
                /\ \E m \in matching : adm.ops = << <<"delete", m>> >>
           /\ matching = {} =>
                /\ adm.vpas = adm.before
                /\ adm.writes = <<>>
                /\ adm.ops = <<>>

\* C16: after a successful reconcile every VPA the pass ensured has an
\* owner reference to its workload with controller and blockOwnerDeletion
\* set, also when the admission handler created the VPA before.
C16_EnsuredVPAsAreControllerOwned ==
    ReconciledOK =>
        \A i \in 1..Len(rec.managedWorkloads) :
            LET wl == rec.managedWorkloads[i]
                key == <<wl.namespace, wl.vpaName>>
            IN /\ key \in DOMAIN vpas
               /\ \E j \in 1..Len(vpas[key].ownerReferences) :
                    vpas[key].ownerReferences[j] =
                        [apiVersion |-> "apps/v1", kind |-> wl.kind, name |-> wl.name,
                         uid |-> wl.uid, controller |-> TRUE,
                         blockOwnerDeletion |-> TRUE]

\* C17: the orphan cleanup of a reconcile of M deletes only VPAs that carry
\* both labels of M; a VPA labelled for another manager stays, also when no
\* workload that M selects stands behind its name.
C17_SweepIsLabelScoped ==
    (rec.pc = "done" /\ rec.found) =>
        \A key \in DOMAIN rec.before \ DOMAIN vpas :
            LabelledFor(rec.before[key], rec.req)

\* A successful pass with its cleanup left alone the VPA of another manager
\* whose name belongs to no workload the reconciled manager selects.
C17_Witness ==
    /\ ReconciledOK
    /\ rec.patched
    /\ \E key \in DOMAIN vpas :
        /\ vpas[key].labels.managedBy = ManagedByKey
        /\ vpas[key].labels.createdBy \notin {"", rec.req}
        /\ vpas[key] = rec.before[key]
        /\ ~ \E slot \in DOMAIN workloads :
                /\ slot[2] = key[1]
                /\ VpaName(slot[3]) = key[2]
                /\ Selected(rec.vpaManager.spec, slot[1], slot[2],
                            workloads[slot].labels)

\* With the VPAs V, every workload an enabled manager selects has a VPA of
\* its name, and no VPA labelled for an enabled manager lacks a workload
\* that the manager selects.
ConvergedWith(V) ==
    \A m \in DOMAIN managers :
        managers[m].spec.enabled =>
            /\ \A slot \in DOMAIN workloads :
                Selected(managers[m].spec, slot[1], slot[2], workloads[slot].labels)
                    => <<slot[2], VpaName(slot[3])>> \in DOMAIN V
            /\ \A key \in DOMAIN V :
                LabelledFor(V[key], m) =>
                    \E slot \in DOMAIN workloads :
                        /\ slot[2] = key[1]
                        /\ VpaName(slot[3]) = key[2]
                        /\ Selected(managers[m].spec, slot[1], slot[2],
                                    workloads[slot].labels)

\* C18: without admission and without API errors, with every manager
\* requeued for ever and the cluster otherwise at rest, the cluster reaches
\* and keeps a state where every workload an enabled manager selects has
\* its VPA and no VPA labelled for an enabled manager is an orphan.
C18_ReconcilerAloneConverges == <>[]ConvergedWith(vpas)

\* A pass took the cluster from a state that was not converged to one that
\* is, with two managers at work.
C18_Witness ==
    /\ rec.pc = "done"
    /\ DOMAIN managers = {"m1", "m2"}
    /\ managers["m1"].spec.enabled
    /\ ~ConvergedWith(rec.before)
    /\ ConvergedWith(vpas)

\* C19: when the orphan sweep of a reconcile fails (the list of the managed
\* VPAs or one of its deletes fails with an error other than not found),
\* Reconcile returns an error and the reconcile is not recorded as a
\* success.
C19_SweepErrorSurfaces ==
    (rec.pc = "done" /\ rec.sweepErr) =>
        /\ rec.err
        /\ rec.recorded # "success"
        /\ rec.requeueAfter = 0

\* The VPAs of V the sweep of the reconciled manager is to delete: labelled
\* for the manager and not the VPA of a workload of this pass.
OrphanCandidates(V) ==
    {key \in DOMAIN V : /\ LabelledFor(V[key], rec.req)
                        /\ key \notin CurrentVPAs(rec.managedWorkloads)}

\* C20: when a delete of the orphan sweep fails with an error other than
\* not found, the sweep goes on through the remaining orphan candidates and
\* deletes them, and then returns the first error with the number of
\* deletions: only the orphans whose delete failed are left.
C20_SweepContinuesAfterFailedDelete ==
    (rec.pc = "done" /\ "delete" \in rec.failed) =>
        /\ rec.sweepErr
        /\ Cardinality(OrphanCandidates(vpas)) <= Cardinality(rec.faults)
        /\ rec.deleted = Cardinality(OrphanCandidates(rec.before))
                            - Cardinality(OrphanCandidates(vpas))

\* C21: when only the status patch of a reconcile fails, Reconcile returns
\* the error, records an error outcome and asks for no delayed requeue, and
\* the VPAs are what a reconcile with a successful patch leaves.
C21_FailedPatchKeepsVPAChanges ==
    (rec.pc = "done" /\ rec.failed = {"patch"}) =>
        /\ rec.err
        /\ rec.recorded = "error"
        /\ rec.requeueAfter = 0
        /\ ~rec.patched
        /\ vpas = Reconcile(managers, rec.before, workloads, rec.req, {},
                            rec.now).vpas

\* The patch failed after the pass had created or deleted a VPA.
C21_Witness ==
    /\ rec.pc = "done"
    /\ rec.failed = {"patch"}
    /\ rec.err
    /\ rec.writes # <<>>
    /\ vpas # rec.before
    /\ \E key \in DOMAIN rec.before : key \notin DOMAIN vpas

\* The workloads the reconciled manager selects that are not among the
\* managed workloads of the pass.
NotEnsured ==
    {slot \in DOMAIN workloads :
        /\ Selected(rec.vpaManager.spec, slot[1], slot[2], workloads[slot].labels)
        /\ \A i \in 1..Len(rec.managedWorkloads) :
                <<rec.managedWorkloads[i].kind, rec.managedWorkloads[i].namespace,
                  rec.managedWorkloads[i].name>> # slot}

\* C22: when the ensure of one workload fails, the reconcile still ensures
\* the VPA of every other workload the manager selects, runs the orphan
\* sweep and the status patch, and returns no error.
C22_EnsureErrorsAreIsolated ==
    (rec.pc = "done" /\ rec.failed = {"ensure"}) =>
        /\ ~rec.err
        /\ rec.recorded = "success"
        /\ rec.patched
        /\ Cardinality(NotEnsured) <= Cardinality(rec.faults)
        /\ \A slot \in (DOMAIN workloads) \ NotEnsured :
                Selected(rec.vpaManager.spec, slot[1], slot[2], workloads[slot].labels)
                    => <<slot[2], VpaName(slot[3])>> \in DOMAIN vpas
        /\ OrphanCandidates(vpas) = {}
        /\ managers[rec.req].status.managedWorkloads = rec.managedWorkloads

\* The ensure of a workload of the first namespace failed and a workload of
\* the second namespace was ensured after it.
C22_Witness ==
    /\ rec.pc = "done"
    /\ rec.failed = {"ensure"}
    /\ \E slot \in NotEnsured : slot[2] = NsOrder[1]
    /\ \E i \in 1..Len(rec.managedWorkloads) :
            /\ rec.managedWorkloads[i].namespace = NsOrder[2]
            /\ <<"create", <<NsOrder[2], rec.managedWorkloads[i].vpaName>> >>
                  \in {rec.writes[j] : j \in 1..Len(rec.writes)}

\* C23: the status write of a reconcile changes the status of the manager
\* only, never its spec or its name, and it is applied without a conflict
\* when another writer has changed the spec since the manager was read: the
\* other writer's spec stays.
C23_StatusPatchLeavesSpec ==
    [][(rec.pc = "patch" /\ rec'.pc = "done" /\ rec.req \in DOMAIN managers) =>
            /\ DOMAIN managers' = DOMAIN managers
            /\ \A m \in DOMAIN managers :
                /\ managers'[m].spec = managers[m].spec
                /\ managers'[m].name = managers[m].name
                /\ m # rec.req => managers'[m] = managers[m]
            /\ ~rec'.err
            /\ rec'.patched
            /\ managers'[rec.req].status =
                  MergePatchStatus(managers[rec.req].status, rec.vpaManager.status,
                                   NewStatus(rec.vpaManager, rec.managedWorkloads,
                                             rec.now))]_vars

\* The status was patched although the spec had been changed since the
\* reconcile read the manager.
C23_Witness ==
    /\ rec.pc = "done"
    /\ rec.patched
    /\ rec.req \in DOMAIN managers
    /\ managers[rec.req].spec # rec.vpaManager.spec
    /\ managers[rec.req].status.lastReconcileTime = rec.now
    /\ managers[rec.req].status.managedWorkloads = rec.managedWorkloads
    /\ rec.managedWorkloads # <<>>

\* C24: after a successful reconcile of M, every VPA ensured in the pass has
\* the update mode of M, whether the pass created it or found it with
\* another update mode.
C24_UpdateModeIsPropagated ==
    ReconciledOK =>
        \A i \in 1..Len(rec.managedWorkloads) :
            LET key == <<rec.managedWorkloads[i].namespace,
                         rec.managedWorkloads[i].vpaName>> IN
            /\ key \in DOMAIN vpas
            /\ vpas[key].spec.updatePolicy.updateMode
                  = rec.vpaManager.spec.updateMode

\* A pass under update mode Initial ensured a VPA that had another update
\* mode before.
C24_Witness ==
    /\ ReconciledOK
    /\ rec.vpaManager.spec.updateMode = "Initial"
    /\ \E i \in 1..Len(rec.managedWorkloads) :
            LET key == <<rec.managedWorkloads[i].namespace,
                         rec.managedWorkloads[i].vpaName>> IN
            /\ key \in DOMAIN rec.before
            /\ rec.before[key].spec.updatePolicy.updateMode # "Initial"
            /\ vpas[key].spec.updatePolicy.updateMode = "Initial"

\* The resource map out is what the builders emit for the manager's map rl:
\* nothing for a nil map, an equal map otherwise.
ResourcesEmitted(rl, out) ==
    /\ out.present = ~rl.isNil
    /\ out.m = rl.m

\* The resourcePolicy out is what the builders emit for the manager's
\* resource policy rp.
PolicyEmitted(rp, out) ==
    /\ out.present => out.containerPolicies # <<>>
    /\ (rp.isNil \/ rp.containerPolicies = <<>>) =>
            /\ ~out.present
            /\ out.containerPolicies = <<>>
    /\ (~rp.isNil /\ rp.containerPolicies # <<>>) =>
            /\ out.present
            /\ Len(out.containerPolicies) = Len(rp.containerPolicies)
            /\ \A i \in 1..Len(rp.containerPolicies) :
                /\ out.containerPolicies[i].containerName
                      = rp.containerPolicies[i].containerName
                /\ ResourcesEmitted(rp.containerPolicies[i].minAllowed,
                                    out.containerPolicies[i].minAllowed)
                /\ ResourcesEmitted(rp.containerPolicies[i].maxAllowed,
                                    out.containerPolicies[i].maxAllowed)

\* The admission handler wrote the VPA of its request from its builder.
AdmWroteSpec ==
    /\ adm.called
    /\ ~adm.err
    /\ adm.match # NoManager
    /\ \E op \in {"create", "update"} :
            <<op, AdmKey>> \in {adm.writes[j] : j \in 1..Len(adm.writes)}

\* C30: the spec both builders emit has no resourcePolicy when the manager
\* has none or has no container policies, never has an empty list of
\* container policies, and otherwise has one entry per container policy of
\* the manager, in order, with its containerName and equal copies of
\* minAllowed and maxAllowed.
C30_ResourcePolicyIsCopiedOrOmitted ==
    /\ ReconciledOK =>
            \A i \in 1..Len(rec.managedWorkloads) :
                LET key == <<rec.managedWorkloads[i].namespace,
                             rec.managedWorkloads[i].vpaName>> IN
                /\ key \in DOMAIN vpas
                /\ PolicyEmitted(rec.vpaManager.spec.resourcePolicy,
                                 vpas[key].spec.resourcePolicy)
    /\ AdmWroteSpec =>
            PolicyEmitted(managers[adm.match].spec.resourcePolicy,
                          adm.vpas[AdmKey].spec.resourcePolicy)

\* Both builders have emitted the two container policies of the manager,
\* and the reconciler's builder was also used under an empty list.
C30_Witness ==
    /\ ReconciledOK
    /\ rec.writes # <<>>
    /\ AdmWroteSpec
    /\ Len(rec.vpaManager.spec.resourcePolicy.containerPolicies) = 2
    /\ Len(adm.vpas[AdmKey].spec.resourcePolicy.containerPolicies) = 2
    /\ \E i \in 1..Len(rec.managedWorkloads) :
            Len(vpas[<<rec.managedWorkloads[i].namespace,
                       rec.managedWorkloads[i].vpaName>>]
                    .spec.resourcePolicy.containerPolicies) = 2

\* A reconcile under a resource policy without container policies wrote a
\* VPA.
C30_WitnessEmptyList ==
    /\ ReconciledOK
    /\ rec.vpaManager.spec.resourcePolicy = EmptyPolicy
    /\ \E i \in 1..Len(rec.writes) : rec.writes[i][1] = "create"

\* The kind, namespace and name of the workloads ensured in the pass.
EnsuredSlots ==
    {<<rec.managedWorkloads[i].kind, rec.managedWorkloads[i].namespace,
       rec.managedWorkloads[i].name>> : i \in 1..Len(rec.managedWorkloads)}

\* The namespace is one the namespace selector of the policy selects.
CandidateNamespace(spec, ns) ==
    \/ spec.namespaceSelector.isNil
    \/ spec.namespaceSelector.matchLabels \subseteq NsLabelsOf(ns)

C26_NamespaceSelectorSemantics ==
    ReconciledOK =>
        LET spec == rec.vpaManager.spec IN
        /\ EnsuredSlots =
              {slot \in DOMAIN workloads :
                  Selected(spec, slot[1], slot[2], workloads[slot].labels)}
        /\ (spec.namespaceSelector.isNil \/ spec.namespaceSelector = Selector({}))
              => \A ns \in NsNames : CandidateNamespace(spec, ns)
        /\ \A i \in 1..Len(rec.writes) :
                rec.writes[i][1] = "create"
                    => CandidateNamespace(spec, rec.writes[i][2][1])
        /\ \A key \in (DOMAIN vpas) \ (DOMAIN rec.before) :
                /\ CandidateNamespace(spec, key[1])
                /\ spec.namespaceSelector.matchLabels \subseteq NsLabelsOf(key[1])

\* Under a selector that only the first namespace satisfies, a pass created
\* a VPA there and none for the workload of the other namespace that the
\* selector of its kind matches.
C26_Witness ==
    /\ ReconciledOK
    /\ rec.vpaManager.spec.namespaceSelector = Selector({"vpa-enabled=true"})
    /\ \E i \in 1..Len(rec.writes) :
            /\ rec.writes[i][1] = "create"
            /\ rec.writes[i][2][1] = "ns1"
    /\ \E slot \in DOMAIN workloads :
            /\ slot[2] = "ns2"
            /\ ~SelectorOf(rec.vpaManager.spec, slot[1]).isNil
            /\ SelectorOf(rec.vpaManager.spec, slot[1]).matchLabels
                  \subseteq workloads[slot].labels
            /\ slot \notin EnsuredSlots
            /\ <<"ns2", VpaName(slot[3])>> \notin DOMAIN vpas

\* Under a nil and under an empty namespaceSelector a pass ensured a workload
\* of the namespace without labels.
C26_WitnessAllNamespaces ==
    /\ ReconciledOK
    /\ rec.vpaManager.spec.namespaceSelector.isNil
    /\ \E slot \in EnsuredSlots : slot[2] = "ns2"

\* The first manager of S in the order of the manager list, if any.
FirstOf(S) ==
    LET items == SelectSeq(MgrOrder, LAMBDA m : m \in S)
    IN IF items = <<>> THEN NoManager ELSE Head(items)

\* C27: findMatching returns the first manager of the list that is enabled
\* and whose namespace selector and kind selector both match the object,
\* never a disabled one, and none when no enabled manager matches, in which
\* case the handler writes no VPA.
C27_FindMatchingIsFirstEnabledMatch ==
    (adm.called /\ ~adm.err /\ adm.req.operation \in {"CREATE", "UPDATE"}) =>
        /\ adm.match = FirstOf(AdmSelecting(adm.req.labels))
        /\ adm.match # NoManager => managers[adm.match].spec.enabled
        /\ adm.req.operation = "UPDATE"
                => adm.oldMatch = FirstOf(AdmSelecting(adm.req.oldLabels))
        /\ (/\ AdmSelecting(adm.req.labels) = {}
            /\ adm.req.operation = "UPDATE" => AdmSelecting(adm.req.oldLabels) = {})
                => /\ adm.writes = <<>>
                   /\ adm.vpas = adm.before

\* C28: a reconcile whose manager does not exist returns success without a
\* requeue and writes neither a VPA nor a status; a reconcile whose Get of
\* the manager fails otherwise records an error outcome, returns the error
\* and writes nothing.
C28_LoadOutcomes ==
    /\ (rec.pc = "done" /\ rec.faults = {} /\ rec.req \notin DOMAIN managers) =>
            /\ ~rec.err
            /\ rec.requeueAfter = 0
            /\ rec.recorded # "error"
            /\ rec.writes = <<>>
            /\ rec.ops = <<>>
            /\ vpas = rec.before
            /\ ~rec.patched
    /\ (rec.pc = "done" /\ "get" \in rec.failed) =>
            /\ rec.err
            /\ rec.recorded = "error"
            /\ rec.requeueAfter = 0
            /\ rec.writes = <<>>
            /\ vpas = rec.before
            /\ ~rec.patched
            /\ rec.req \in DOMAIN managers
                  => managers[rec.req].status.lastReconcileTime # rec.now

\* The Get of a manager that exists and has work to do failed.
C28_Witness ==
    /\ rec.pc = "done"
    /\ "get" \in rec.failed
    /\ rec.req \in DOMAIN managers
    /\ managers[rec.req].spec.enabled
    /\ \E slot \in DOMAIN workloads :
            /\ Selected(managers[rec.req].spec, slot[1], slot[2],
                        workloads[slot].labels)
            /\ <<slot[2], VpaName(slot[3])>> \notin DOMAIN vpas

\* The manager of the request was gone while VPAs labelled for it were left.
C28_WitnessAbsent ==
    /\ rec.pc = "done"
    /\ rec.failed = {}
    /\ rec.req \notin DOMAIN managers
    /\ \E key \in DOMAIN vpas : LabelledFor(vpas[key], rec.req)

\* C29: a reconcile of an enabled manager that returns without error asks
\* for a requeue after five minutes; a reconcile of a manager that does not
\* exist or is disabled asks for none.
C29_RequeueAfterFiveMinutes ==
    /\ ReconciledOK =>
            /\ rec.requeueAfter = RequeueSeconds
            /\ rec.requeueAfter = 5 * 60
            /\ rec.requeueAfter > 0
    /\ (rec.pc = "done" /\ ~rec.err
          /\ (~rec.found \/ ~rec.vpaManager.spec.enabled)) =>
            rec.requeueAfter = 0

\* A pass of an enabled manager that had nothing to write asked for its
\* requeue.
C29_Witness ==
    /\ ReconciledOK
    /\ rec.patched
    /\ rec.writes = <<>>
    /\ rec.requeueAfter = RequeueSeconds

\* A pass of a disabled manager asked for no requeue.
C29_WitnessDisabled ==
    /\ rec.pc = "done"
    /\ rec.found
    /\ ~rec.vpaManager.spec.enabled
    /\ rec.requeueAfter = 0

\* C31: the orphan sweep of a reconcile of M deletes no VPA labelled for M
\* whose workload exists and is selected by M, also when the ensure of that
\* workload or the list of its kind failed in the same pass.
C31_SweepSparesVPAsOfMatchingWorkloads ==
    (rec.pc = "done" /\ rec.found /\ rec.vpaManager.spec.enabled) =>
        \A key \in (DOMAIN rec.before) \ (DOMAIN vpas) :
            LabelledFor(rec.before[key], rec.req) =>
                ~\E slot \in DOMAIN workloads :
                    /\ slot[2] = key[1]
                    /\ VpaName(slot[3]) = key[2]
                    /\ Selected(rec.vpaManager.spec, slot[1], slot[2],
                                workloads[slot].labels)

\* The VPA writes of the last admission call, as a set.
AdmWrites == {adm.writes[j] : j \in 1..Len(adm.writes)}

\* C32: every VPA that a reconcile of M or an admission handler acting for
\* M updates or deletes carried the two labels of M before; a VPA of the name
\* <name>-vpa that carried other labels is not modified or deleted.
C32_WritesOnlyToOwnVPAs ==
    /\ (rec.pc = "done" /\ rec.found) =>
            \A key \in DOMAIN rec.before :
                (key \notin DOMAIN vpas \/ vpas[key] # rec.before[key])
                    => LabelledFor(rec.before[key], rec.req)
    /\ (adm.called /\ ~adm.err) =>
            \A key \in DOMAIN adm.before :
                (key \notin DOMAIN adm.vpas \/ adm.vpas[key] # adm.before[key])
                    => \E m \in {adm.match, adm.oldMatch} \ {NoManager} :
                            LabelledFor(adm.before[key], m)

\* C33: after an UPDATE admission whose old object matched M and whose new
\* object matches another manager M', the VPA of the workload carries the
\* labels of M'.
C33_UpdateRelabelsForNewManager ==
    (/\ adm.called
     /\ adm.req.operation = "UPDATE"
     /\ ~adm.err
     /\ adm.oldMatch # NoManager
     /\ adm.match \notin {NoManager, adm.oldMatch}) =>
        /\ AdmKey \in DOMAIN adm.vpas
        /\ LabelledFor(adm.vpas[AdmKey], adm.match)
        /\ adm.vpas[AdmKey].spec = AdmBuilt(adm.match).spec

\* C34: when the ensure of a workload finds its VPA, the VPA's spec becomes
\* the spec built for the workload and nothing else changes: its labels,
\* owner references and name stay, no other VPA is touched, and no create is
\* counted.
C34_EnsureOverwritesSpecOnly ==
    [][(/\ rec.pc = "ensure"
        /\ rec'.calls # rec.calls
        /\ <<Head(rec.wls).namespace, VpaName(Head(rec.wls).name)>> \in DOMAIN vpas) =>
            LET wl == Head(rec.wls)
                key == <<wl.namespace, VpaName(wl.name)>>
            IN /\ DOMAIN vpas' = DOMAIN vpas
               /\ \A k \in (DOMAIN vpas) \ {key} : vpas'[k] = vpas[k]
               /\ vpas'[key].labels = vpas[key].labels
               /\ vpas'[key].ownerReferences = vpas[key].ownerReferences
               /\ vpas'[key].name = vpas[key].name
               /\ vpas'[key].namespace = vpas[key].namespace
               /\ vpas'[key].spec = BuildSpec(rec.vpaManager, wl.kind, wl.name)
               /\ rec'.ops = rec.ops
               /\ rec'.writes = Append(rec.writes, <<"update", key>>)]_vars

\* An ensure has given a VPA that carries other labels and another owner
\* the spec of the reconciled manager.
C34_Witness ==
    /\ rec.pc \notin {"idle", "done"}
    /\ rec.writes # <<>>
    /\ LET w == rec.writes[Len(rec.writes)] IN
        /\ w[1] = "update"
        /\ w[2] \in DOMAIN vpas
        /\ w[2] \in DOMAIN rec.before
        /\ ~LabelledFor(vpas[w[2]], rec.req)
        /\ vpas[w[2]].labels = rec.before[w[2]].labels
        /\ vpas[w[2]].ownerReferences = rec.before[w[2]].ownerReferences
        /\ vpas[w[2]].spec # rec.before[w[2]].spec
        /\ vpas[w[2]].spec.updatePolicy.updateMode = rec.vpaManager.spec.updateMode

(***************************************************************************)
(* Admission handlers running concurrently for one workload.  Each handler *)
(* is a frame in adm.handlers that advances by one API call on the VPA at  *)
(* a time; adm.log is the sequence of the writes the API server accepted,  *)
(* and a VPA's resourceVersion is the position of its last write there.    *)
(***************************************************************************)
MaxHandlers == 2
RaceHandlers == 1..MaxHandlers

IdleHandler ==
    [pc |-> "idle", kind |-> "", req |-> [operation |-> ""],
     match |-> NoManager, oldMatch |-> NoManager, err |-> FALSE, reason |-> "",
     resourceVersion |-> 0, ops |-> <<>>, allowed |-> FALSE,
     webhookRequest |-> <<>>]

\* metadata.resourceVersion of the VPA at key: 0 for a VPA nobody wrote.
ResourceVersion(log, key) ==
    LET at == {i \in 1..Len(log) : log[i][2] = key}
    IN IF at = {} THEN 0 ELSE CHOOSE i \in at : \A j \in at : j <= i

RaceKey(h) == <<adm.handlers[h].req.namespace, VpaName(adm.handlers[h].req.name)>>

\* The handler's frame moves on; the other handlers stay where they are.
RaceStep(h, frame, log) ==
    adm' = [adm EXCEPT !.handlers[h] = frame, !.log = log]

\* Handle up to the first call on the VPA: decode, findMatchingVpaManager
\* for the object images, and the branch of handleCreate or handleUpdate.
\* Handlers are numbered in the order they start, all for one workload.
RaceHandle ==
    \E h \in RaceHandlers, kind \in HandlerKinds, operation \in {"CREATE", "UPDATE"},
       ns \in NsNames, name \in Names, labels \in LabelSets :
        LET slot == <<kind, ns, name>>
            old == IF slot \in DOMAIN workloads THEN workloads[slot].labels ELSE {}
            req == [operation |-> operation, namespace |-> ns, name |-> name,
                    labels |-> labels,
                    oldLabels |-> IF operation = "UPDATE" THEN old ELSE {},
                    uid |-> UIDOf(kind, ns, name), undecodable |-> FALSE]
            h0 == [calls |-> 0, faults |-> {}, err |-> FALSE, match |-> NoManager]
            newM == findMatchingVpaManager(kind, h0, managers, NewObject(req)).match
            oldM == IF operation = "UPDATE"
                    THEN findMatchingVpaManager(kind, h0, managers, OldObject(req)).match
                    ELSE NoManager
            pc == CASE operation = "CREATE" /\ newM # NoManager -> "createGet"
                    [] operation = "UPDATE" /\ oldM = NoManager /\ newM # NoManager ->
                          "createGet"
                    [] operation = "UPDATE" /\ oldM # NoManager /\ newM = NoManager ->
                          "delete"
                    [] operation = "UPDATE" /\ oldM # NoManager /\ newM # NoManager ->
                          "updateGet"
                    [] OTHER -> "return"
        IN /\ adm.handlers[h].pc = "idle"
           /\ \A g \in RaceHandlers :
                /\ g < h => adm.handlers[g].pc # "idle"
                /\ adm.handlers[g].pc # "idle" =>
                     /\ adm.handlers[g].kind = kind
                     /\ adm.handlers[g].req.namespace = ns
                     /\ adm.handlers[g].req.name = name
           /\ operation = "UPDATE" => slot \in DOMAIN workloads /\ labels # old
           /\ RaceStep(h, [IdleHandler EXCEPT !.pc = pc, !.kind = kind, !.req = req,
                                              !.match = newM, !.oldMatch = oldM],
                       adm.log)
           /\ UNCHANGED <<managers, workloads, vpas, clock, rec>>

\* createVPA, the Get: a VPA that is there ends createVPA without error.
RaceCreateGet ==
    \E h \in RaceHandlers :
        LET f == adm.handlers[h] IN
        /\ f.pc = "createGet"
        /\ RaceStep(h, IF RaceKey(h) \in DOMAIN vpas
                       THEN [f EXCEPT !.pc = "return",
                                      !.ops = Append(@, <<"create", f.match>>)]
                       ELSE [f EXCEPT !.pc = "create"],
                    adm.log)
        /\ UNCHANGED <<managers, workloads, vpas, clock, rec>>

\* createVPA, the Create: the API server refuses a name that is taken.
RaceCreate ==
    \E h \in RaceHandlers :
        LET f == adm.handlers[h]
            key == RaceKey(h)
        IN /\ f.pc = "create"
           /\ IF key \in DOMAIN vpas
              THEN /\ RaceStep(h, [f EXCEPT !.pc = "return", !.err = TRUE,
                                            !.reason = "AlreadyExists"], adm.log)
                   /\ vpas' = vpas
              ELSE /\ RaceStep(h, [f EXCEPT !.pc = "return",
                                            !.ops = Append(@, <<"create", f.match>>)],
                               Append(adm.log, <<"create", key, h>>))
                   /\ vpas' = (key :> buildVPA(f.kind, managers[f.match],
                                               NewObject(f.req), key[2])) @@ vpas
           /\ UNCHANGED <<managers, workloads, clock, rec>>

\* updateVPA, the Get: not found goes on with createVPA.
RaceUpdateGet ==
    \E h \in RaceHandlers :
        LET f == adm.handlers[h]
            key == RaceKey(h)
        IN /\ f.pc = "updateGet"
           /\ RaceStep(h, IF key \in DOMAIN vpas
                          THEN [f EXCEPT !.pc = "update",
                                         !.resourceVersion =
                                            ResourceVersion(adm.log, key)]
                          ELSE [f EXCEPT !.pc = "createGet"],
                       adm.log)
           /\ UNCHANGED <<managers, workloads, vpas, clock, rec>>

\* updateVPA, the Update of the object that was read with the built spec:
\* refused when the VPA is gone or was written since the Get.
RaceUpdate ==
    \E h \in RaceHandlers :
        LET f == adm.handlers[h]
            key == RaceKey(h)
        IN /\ f.pc = "update"
           /\ IF key \notin DOMAIN vpas
              THEN /\ RaceStep(h, [f EXCEPT !.pc = "return", !.err = TRUE,
                                            !.reason = "NotFound"], adm.log)
                   /\ vpas' = vpas
              ELSE IF ResourceVersion(adm.log, key) # f.resourceVersion
              THEN /\ RaceStep(h, [f EXCEPT !.pc = "return", !.err = TRUE,
                                            !.reason = "Conflict"], adm.log)
                   /\ vpas' = vpas
              ELSE /\ RaceStep(h, [f EXCEPT !.pc = "return"],
                               Append(adm.log, <<"update", key, h>>))
                   /\ vpas' = [vpas EXCEPT ![key].spec =
                                 buildVPA(f.kind, managers[f.match],
                                          NewObject(f.req), key[2]).spec]
           /\ UNCHANGED <<managers, workloads, clock, rec>>

\* deleteVPA: Delete by name; not found is no error.
RaceDelete ==
    \E h \in RaceHandlers :
        LET f == adm.handlers[h]
            key == RaceKey(h)
        IN /\ f.pc = "delete"
           /\ RaceStep(h, [f EXCEPT !.pc = "return",
                                    !.ops = Append(@, <<"delete", f.oldMatch>>)],
                       IF key \in DOMAIN vpas
                       THEN Append(adm.log, <<"delete", key, h>>) ELSE adm.log)
           /\ vpas' = [k \in (DOMAIN vpas) \ {key} |-> vpas[k]]
           /\ UNCHANGED <<managers, workloads, clock, rec>>

\* Handle returns: the error is logged, the request recorded and allowed;
\* the API server then stores the admitted change.
RaceReturn ==
    \E h \in RaceHandlers :
        LET f == adm.handlers[h] IN
        /\ f.pc = "return"
        /\ RaceStep(h, [f EXCEPT !.pc = "done", !.allowed = Allowed(f),
                                 !.webhookRequest =
                                    <<f.req.operation,
                                      IF f.err THEN "error" ELSE "success">>],
                    adm.log)
        /\ workloads' = IF Allowed(f) THEN Persist(workloads, f.kind, f.req)
                        ELSE workloads
        /\ UNCHANGED <<managers, vpas, clock, rec>>

\* The managers the racing handlers find: m1 under any selector for the two
\* kinds, alone or before m2.
RaceManagers ==
    LET m1s == {Manager("m1", ManagerSpec(TRUE, "Auto", MatchAll, sel, sel,
                                          NilSelector, NoPolicy)) :
                    sel \in Selectors}
    IN {("m1" :> m1) : m1 \in m1s}
       \cup {("m1" :> m1) @@ ("m2" :> CatchAll("m2", "Off")) : m1 \in m1s}

\* No VPA yet; the workload is about to be created or is there already.
InitRace ==
    /\ clock = 0
    /\ rec = IdleFrame
    /\ adm = [handlers |-> [h \in RaceHandlers |-> IdleHandler], log |-> <<>>]
    /\ managers \in RaceManagers
    /\ workloads \in WorkloadMaps(HandlerSlots, 1)
    /\ vpas = <<>>

NextRace ==
    \/ RaceHandle
    \/ RaceCreateGet
    \/ RaceCreate
    \/ RaceUpdateGet
    \/ RaceUpdate
    \/ RaceDelete
    \/ RaceReturn

SpecRace == InitRace /\ [][NextRace]_vars

\* Every handler of the race has returned.
RaceOver == \A h \in RaceHandlers : adm.handlers[h].pc = "done"

\* The VPA keys the racing handlers worked on.
RaceKeys == {RaceKey(h) : h \in RaceHandlers}

\* C35: when admission handlers for CREATE or UPDATE of one workload have
\* run concurrently, in any interleaving of their calls on the VPA, every
\* handler has allowed its request, and the VPA of the workload, if there
\* is one, carries the spec built from a manager that selects the workload
\* as one of the requests presented it.
C35_RaceLeavesOneMatchingVPA ==
    RaceOver =>
        /\ \A h \in RaceHandlers : adm.handlers[h].allowed
        /\ \A key \in RaceKeys \cap DOMAIN vpas :
             \E h \in RaceHandlers, m \in DOMAIN managers :
                LET f == adm.handlers[h] IN
                /\ Selected(managers[m].spec, f.kind, f.req.namespace, f.req.labels)
                /\ vpas[key].spec = BuildSpec(managers[m], f.kind, f.req.name)

\* The same, relative to what findMatchingVpaManager returned.
C35_RaceLeavesVPAOfAMatch ==
    RaceOver =>
        /\ \A h \in RaceHandlers : adm.handlers[h].allowed
        /\ \A key \in RaceKeys \cap DOMAIN vpas :
             \E h \in RaceHandlers :
                LET f == adm.handlers[h] IN
                /\ f.match # NoManager
                /\ vpas[key].spec = BuildSpec(managers[f.match], f.kind, f.req.name)

\* A handler lost the create race.
C35_LostRace ==
    /\ RaceOver
    /\ \E h \in RaceHandlers : adm.handlers[h].reason = "AlreadyExists"

\* C36: a reconcile of M that follows at once on a reconcile of M that
\* returned without error leaves every VPA as the first pass left it (names,
\* namespaces, labels, owner references and specs) and changes nothing in
\* M's status but lastReconcileTime.
C36_ReconcileIsIdempotent ==
    [][(/\ rec.pc = "done"
        /\ rec.found
        /\ ~rec.err
        /\ rec'.pc = "done"
        /\ rec'.req = rec.req
        /\ rec'.found
        /\ ~rec'.err
        /\ rec'.now = rec.now + 1) =>
            /\ DOMAIN vpas' = DOMAIN vpas
            /\ \A key \in DOMAIN vpas :
                 /\ vpas'[key].name = vpas[key].name
                 /\ vpas'[key].namespace = vpas[key].namespace
                 /\ vpas'[key].labels = vpas[key].labels
                 /\ vpas'[key].ownerReferences = vpas[key].ownerReferences
                 /\ vpas'[key].spec = vpas[key].spec
            /\ \A f \in (DOMAIN managers[rec.req].status) \ {"lastReconcileTime"} :
                 managers'[rec.req].status[f] = managers[rec.req].status[f]]_vars

\* The second of two passes over workloads the manager selects has ended:
\* it read the status the first pass patched, wrote VPAs again and patched.
C36_Witness ==
    /\ rec.pc = "done"
    /\ rec.found
    /\ ~rec.err
    /\ rec.now = 2
    /\ rec.vpaManager.status.lastReconcileTime = 1
    /\ rec.vpaManager.status.managedVPAs > 0
    /\ rec.writes # <<>>
    /\ vpas = rec.before
    /\ managers[rec.req].status.lastReconcileTime = 2

(***************************************************************************)
(* The wiring of the Namespace watch: the map function that turns a        *)
(* Namespace event into reconcile requests.  Its result is kept in the     *)
(* fields obj, listed and requests that the event adds to rec.             *)
(***************************************************************************)
\* namespaceMatchesSelector when a nil selector matches no namespace.
namespaceMatchesSelectorNilAsNone(nsLabels, selector) ==
    IF selector.isNil THEN FALSE ELSE SelectorMatches(nsLabels, selector)

\* namespaceMatchesSelector: nil matches every namespace.
namespaceMatchesSelector(nsLabels, selector) ==
    IF selector.isNil THEN TRUE ELSE SelectorMatches(nsLabels, selector)

\* findVpaManagersForNamespace: nil when the List fails, else a request for
\* every enabled manager of the list whose namespaceSelector matches.
findVpaManagersForNamespace(M, nsLabels, listFails) ==
    IF listFails THEN <<>>
    ELSE SelectSeq(ManagerItems(M),
                   LAMBDA m : /\ M[m].spec.enabled
                              /\ namespaceMatchesSelector(
                                     nsLabels, M[m].spec.namespaceSelector))

\* A Namespace event reaches the map function; the List of the managers
\* succeeds or fails.
NamespaceChange ==
    \E ns \in NsNames, listFails \in BOOLEAN :
        /\ rec' = [obj |-> ns, listed |-> ~listFails,
                   requests |-> findVpaManagersForNamespace(
                                    managers, NsLabelsOf(ns), listFails)]
                  @@ rec
        /\ UNCHANGED <<managers, workloads, vpas, clock, adm>>

\* The managers the watch finds: enabled or not, under any namespaceSelector.
WiringManagers ==
    LET of(name) == {Manager(name, ManagerSpec(enabled, "Auto", sel, MatchAll,
                                               MatchAll, MatchAll, NoPolicy)) :
                        enabled \in BOOLEAN, sel \in Selectors}
    IN {<<>>} \cup {("m1" :> m1) : m1 \in of("m1")}
       \cup {("m1" :> m1) @@ ("m2" :> m2) : m1 \in of("m1"), m2 \in of("m2")}

InitWiring ==
    /\ InitCommon
    /\ managers \in WiringManagers
    /\ workloads = <<>>
    /\ vpas = <<>>

NextWiring == NamespaceChange

SpecWiring == InitWiring /\ [][NextWiring]_vars

\* The map function has been called for a Namespace event.
Mapped == "requests" \in DOMAIN rec

\* The managers a Namespace event is for: enabled, and without a
\* namespaceSelector or with one whose labels the namespace carries.
ManagersFor(ns) ==
    {m \in DOMAIN managers :
        /\ managers[m].spec.enabled
        /\ \/ managers[m].spec.namespaceSelector.isNil
           \/ managers[m].spec.namespaceSelector.matchLabels \subseteq NsLabelsOf(ns)}

\* C37: on a Namespace event exactly the enabled managers whose
\* namespaceSelector matches the namespace's labels are enqueued, each
\* once, a nil selector matching every namespace; when the List of the
\* managers fails nothing is enqueued.
C37_NamespaceEventEnqueuesMatchingManagers ==
    Mapped =>
        /\ SeqRange(rec.requests) = IF rec.listed THEN ManagersFor(rec.obj) ELSE {}
        /\ Cardinality(SeqRange(rec.requests)) = Len(rec.requests)

\* An event for a namespace without labels enqueued a manager without a
\* namespaceSelector and left out a manager that is disabled or selects
\* other namespaces.
C37_Witness ==
    /\ Mapped
    /\ rec.listed
    /\ NsLabelsOf(rec.obj) = {}
    /\ \E m \in SeqRange(rec.requests) : managers[m].spec.namespaceSelector.isNil
    /\ \E m \in DOMAIN managers : m \notin SeqRange(rec.requests)

\* The List of the managers failed although managers were there to enqueue.
C37_WitnessListFailed ==
    /\ Mapped
    /\ ~rec.listed
    /\ ManagersFor(rec.obj) # {}

MaxFragments == 2

\* An error reaches the metrics and is classified.
Classify ==
    /\ adm.classified = <<>>
    /\ adm' = [adm EXCEPT !.classified = classifyResult(adm.error)]
    /\ UNCHANGED <<managers, workloads, vpas, clock, rec>>

InitClassify ==
    /\ clock = 0
    /\ rec = IdleFrame
    /\ managers = <<>>
    /\ workloads = <<>>
    /\ vpas = <<>>
    /\ \E err \in {NilError} \cup {ErrorOf(m) : m \in Messages(MaxFragments)} :
            adm = [error |-> err, classified |-> <<>>] @@ NoAdmission

NextClassify == Classify

SpecClassify == InitClassify /\ [][NextClassify]_vars

\* The text occurs in the message of the error that was classified.
Has(text) ==
    \E i \in 0..(Len(adm.error.message) - Len(text)) :
        \A j \in 1..Len(text) : adm.error.message[i + j] = text[j]

Classified == "classified" \in DOMAIN adm /\ adm.classified # <<>>

\* C40: a nil error is classified as success with the empty error type; any
\* other error is classified as an error of exactly one type, decided by
\* the texts in its message in this precedence: "not found" or "NotFound"
\* is not_found; else "conflict", "Conflict" or "already exists" is
\* conflict; else "validation", "invalid" or "Invalid" is validation; else
\* "connection refused", "timeout" or "context deadline" is api_server;
\* else unknown.
C40_ClassifyErrorPrecedence ==
    Classified =>
        LET notFound == Has(Text.notFound) \/ Has(Text.NotFound)
            conflict == Has(Text.conflict) \/ Has(Text.Conflict) \/ Has(Text.alreadyExists)
            validation == Has(Text.validation) \/ Has(Text.invalid) \/ Has(Text.Invalid)
            apiServer == Has(Text.connectionRefused) \/ Has(Text.timeout)
                            \/ Has(Text.contextDeadline)
            type == adm.classified[2]
        IN IF adm.error.isNil THEN adm.classified = <<"success", "">>
           ELSE /\ adm.classified[1] = "error"
                /\ type \in {"not_found", "conflict", "validation", "api_server", "unknown"}
                /\ type = "not_found" <=> notFound
                /\ type = "conflict" <=> (~notFound /\ conflict)
                /\ type = "validation" <=> (~notFound /\ ~conflict /\ validation)
                /\ type = "api_server" <=>
                        (~notFound /\ ~conflict /\ ~validation /\ apiServer)
                /\ type = "unknown" <=>
                        (~notFound /\ ~conflict /\ ~validation /\ ~apiServer)

\* An error whose message has a conflict text before a not-found text was
\* classified as not_found.
C40_Witness ==
    /\ Classified
    /\ ~adm.error.isNil
    /\ Has(Text.alreadyExists)
    /\ Has(Text.notFound)
    /\ adm.classified = <<"error", "not_found">>

\* A text that only the joined fragments spell was found.
C40_WitnessJoined ==
    /\ Classified
    /\ adm.error.message = Piece.time \o Piece.out
    /\ adm.classified = <<"error", "api_server">>

\* The nil error was classified.
C40_WitnessNil == Classified /\ adm.error.isNil

\* The number of samples in a counter vector.
Samples(total) ==
    LET RECURSIVE Sum(_)
        Sum(S) == IF S = {} THEN 0
                  ELSE LET l == CHOOSE x \in S : TRUE IN total[l] + Sum(S \ {l})
    IN Sum(DOMAIN total)

\* C38: an admission invocation records exactly one webhook request
\* sample, under the request's operation: with result success and no error
\* type when the handler met no error, with result error and the type the
\* error is classified as when it did, whichever way Handle returned.
C38_OneRequestSamplePerInvocation ==
    adm.called =>
        /\ Samples(adm.webhookRequestsTotal) = 1
        /\ \A l \in DOMAIN adm.webhookRequestsTotal :
             /\ l[1] = adm.req.operation
             /\ ~adm.err => l[2] = "success" /\ l[3] = ""
             /\ adm.err => /\ l[2] = "error"
                           /\ l[3] = ClassifyError(adm.error)
                           /\ l[3] # ""

\* A DELETE whose API call failed with a refused connection was recorded
\* as an api_server error.
C38_Witness ==
    /\ adm.called
    /\ adm.err
    /\ ~adm.req.undecodable
    /\ adm.error.message = Text.connectionRefused
    /\ adm.webhookRequestsTotal = (<<"DELETE", "error", "api_server">> :> 1)

\* An object that did not decode was recorded under the decoder's error.
C38_WitnessDecode ==
    /\ adm.called
    /\ adm.req.undecodable
    /\ adm.webhookRequestsTotal = (<<"CREATE", "error", "validation">> :> 1)

\* A request of an operation the handler has no case for was recorded.
C38_WitnessOther ==
    /\ adm.called
    /\ adm.req.operation = "CONNECT"
    /\ adm.webhookRequestsTotal = (<<"CONNECT", "success", "">> :> 1)

(***************************************************************************)
(* The workload providers: ForEach walks the pages of a list, List is      *)
(* ForEach with a callback that collects.  The objects the server holds    *)
(* for the request, in list order, are the sequence workloads; the frame   *)
(* of the iteration is rec.  A continue token is the offset of the next    *)
(* page, 0 being the empty token.                                          *)
(***************************************************************************)
PageSize == 500
MaxObjects == 1001

\* The callbacks: List's, which appends the workload and goes on; one that
\* stops the iteration at its at-th call; one that fails at its at-th call.
\* The result is <<continueIteration, err>>.
Callback(mode, at, call) ==
    CASE mode = "stop" /\ call = at -> <<FALSE, FALSE>>
      [] mode = "fail" /\ call = at -> <<FALSE, TRUE>>
      [] OTHER -> <<TRUE, FALSE>>

\* c.List with client.Limit(limit) and client.Continue(token): the items of
\* the page and the token of the next one.
ServerList(W, limit, token) ==
    LET last == IF token + limit < Len(W) THEN token + limit ELSE Len(W) IN
    [items |-> SubSeq(W, token + 1, last),
     continue |-> IF last < Len(W) THEN last ELSE 0]

\* The loop over list.Items when continueIteration = false only ends the
\* walk of the page.
CallbackLoopBreaking(f, items) ==
    LET ends == {i \in 1..Len(items) :
                    Callback(f.mode, f.at, Len(f.seen) + i) # <<TRUE, FALSE>>}
        n == IF ends = {} THEN Len(items) ELSE Min(ends)
        called == SubSeq(items, 1, n)
        f1 == [f EXCEPT !.seen = @ \o called,
                        !.listed = IF f.mode = "collect" THEN @ \o called ELSE @]
    IN IF ends = {} THEN f1
       ELSE IF Callback(f.mode, f.at, Len(f.seen) + n)[2]
       THEN [f1 EXCEPT !.pc = "done", !.err = TRUE]
       ELSE [f1 EXCEPT !.stopped = TRUE]

\* The loop over list.Items: the callback is called with each item up to
\* the first call that fails or returns continueIteration = false, which
\* ends ForEach; List's callback appends the item it is called with.
CallbackLoop(f, items) ==
    LET ends == {i \in 1..Len(items) :
                    Callback(f.mode, f.at, Len(f.seen) + i) # <<TRUE, FALSE>>}
        n == IF ends = {} THEN Len(items) ELSE Min(ends)
        called == SubSeq(items, 1, n)
        f1 == [f EXCEPT !.seen = @ \o called,
                        !.listed = IF f.mode = "collect" THEN @ \o called ELSE @]
    IN IF ends = {} THEN f1
       ELSE IF Callback(f.mode, f.at, Len(f.seen) + n)[2]
       THEN [f1 EXCEPT !.pc = "done", !.err = TRUE]
       ELSE [f1 EXCEPT !.pc = "done", !.stopped = TRUE]

\* One turn of ForEach's loop: the page request, the callbacks of its
\* items, and the continue token.
ForEachPage(W, f) ==
    LET f1 == [f EXCEPT !.requests =
                            Append(@, [limit |-> PageSize, continue |-> f.token])]
    IN IF f.failPage = Len(f1.requests)
       THEN [f1 EXCEPT !.pc = "done", !.err = TRUE]
       ELSE LET list == ServerList(W, PageSize, f.token)
                f2 == CallbackLoop(f1, list.items)
            IN IF f2.pc = "done" THEN f2
               ELSE IF list.continue = 0 THEN [f2 EXCEPT !.pc = "done"]
               ELSE [f2 EXCEPT !.token = list.continue]

ForEachStep ==
    /\ rec.pc = "list"
    /\ rec' = ForEachPage(workloads, rec)
    /\ UNCHANGED <<managers, workloads, vpas, clock, adm>>

\* A provider of any kind is asked for a list that is empty, has one
\* object, or ends around a page boundary; the callback is List's or one
\* that stops or fails at a page boundary, and one of the page requests a
\* list of MaxObjects takes may fail.
InitForEach ==
    /\ clock = 0
    /\ adm = NoAdmission
    /\ managers = <<>>
    /\ vpas = <<>>
    /\ \E n \in {0, 1, PageSize - 1, PageSize, PageSize + 1, 2 * PageSize,
                  MaxObjects} :
            workloads = [i \in 1..n |-> i]
    /\ \E kind \in Kinds, mode \in {"collect", "stop", "fail"},
          at \in {1, PageSize, PageSize + 1},
          failPage \in 0..((MaxObjects + PageSize - 1) \div PageSize) :
            /\ mode = "collect" => at = 1
            /\ rec = [pc |-> "list", kind |-> kind, mode |-> mode, at |-> at,
                      failPage |-> failPage, token |-> 0, requests |-> <<>>,
                      seen |-> <<>>, listed |-> <<>>, err |-> FALSE,
                      stopped |-> FALSE]

NextForEach == ForEachStep

SpecForEach == InitForEach /\ [][NextForEach]_vars

\* The first n objects of the list.
FirstObjects(n) == SubSeq(workloads, 1, n)

\* The page requests a list of n objects takes.
PagesOf(n) == IF n = 0 THEN 1 ELSE (n + 499) \div 500

\* C39: ForEach asks for pages of at most 500 objects, each with the
\* continue token of the page before; it hands the objects to the callback
\* once each in list order; it ends without error after the page without
\* continue token, or as soon as the callback asks to stop; it ends with
\* the error at once when a page request or the callback fails, and List
\* then holds the objects collected before the failure.
C39_ForEachWalksThePages ==
    ("seen" \in DOMAIN rec /\ rec.pc = "done") =>
        LET n == Len(workloads)
            hit == rec.mode # "collect" /\ rec.at <= n
            pages == IF hit THEN PagesOf(rec.at) ELSE PagesOf(n)
            pageFails == rec.failPage \in 1..pages
        IN /\ \A i \in 1..Len(rec.requests) :
                /\ rec.requests[i].limit <= 500
                /\ rec.requests[i].continue = (i - 1) * 500
           /\ IF pageFails
              THEN /\ rec.err
                   /\ Len(rec.requests) = rec.failPage
                   /\ rec.seen = FirstObjects((rec.failPage - 1) * 500)
              ELSE IF hit
              THEN /\ rec.err = (rec.mode = "fail")
                   /\ Len(rec.requests) = pages
                   /\ rec.seen = FirstObjects(rec.at)
              ELSE /\ ~rec.err
                   /\ Len(rec.requests) = pages
                   /\ rec.seen = workloads
           /\ rec.mode = "collect" => rec.listed = rec.seen

\* List walked three pages to the end.
C39_Witness ==
    /\ "seen" \in DOMAIN rec
    /\ rec.pc = "done"
    /\ rec.mode = "collect"
    /\ ~rec.err
    /\ Len(rec.requests) = 3
    /\ Len(workloads) > 1000
    /\ rec.listed = workloads

\* The second page request of List failed: List holds the first page.
C39_WitnessPageFailed ==
    /\ "seen" \in DOMAIN rec
    /\ rec.pc = "done"
    /\ rec.mode = "collect"
    /\ rec.err
    /\ Len(rec.requests) = 2
    /\ Len(rec.listed) = 500

\* The callback stopped the iteration at the first object of the second
\* page of three.
C39_WitnessStopped ==
    /\ "seen" \in DOMAIN rec
    /\ rec.pc = "done"
    /\ rec.stopped
    /\ ~rec.err
    /\ Len(rec.seen) = 501
    /\ Len(workloads) > 1000
    /\ Len(rec.requests) = 2

====
